---- MODULE Spec2Model ----
(***************************************************************************)
(* Model of transifex-bulk-downloader.py (HybridTransifexDownloader).      *)
(*                                                                         *)
(* Three specifications share the variables below:                         *)
(*   Spec        several runs of generate_config_for_projects against one  *)
(*               working directory: the add-remote loop, the config.lock   *)
(*               protocol of _add_single_project_with_lock and the trailing *)
(*               quote fix;                                                *)
(*   SpecRun     one run(): discovery, setup_working_directory, the add    *)
(*               loop, tx pull and the report;                             *)
(*   SpecMonitor _execute_with_progress_bars reading the output of one     *)
(*               tx pull child, with _process_line and the wall clock.     *)
(***************************************************************************)
EXTENDS Integers, Sequences, FiniteSets, TLC

\* ---------------------------------------------------------------- bounds
\* number of concurrently running downloader processes sharing one work_dir
NumProcs == 3
\* longest project list one process is given
MaxProjects == 2
\* total number of add calls over all processes of one behaviour
MaxAdds == 3
\* longest existing .tx/config, in lines
MaxConfigLines == 2
\* number of lines the tx pull child writes at most
MaxLines == 3
\* lines the output stream buffers between the child and the monitor
MaxBuf == 1
\* the 7200 s ceiling of _execute_with_progress_bars, in clock ticks
HardTimeoutTicks == 2
\* add_remote_timeout (DiscoveryConfig, 300 s by default) in clock ticks
TimeoutTicks == 1
\* lines the child writes when it floods the monitor with error lines
MaxFlood == 21
\* calls of _fix_config_quotes on the same file in one behaviour
MaxCalls == 2
\* the 1000000 of line 342, the line number past which the parser stops
LineLimit == 1
\* longest file handed to the parser on its own, in lines
MaxParseLines == 3

Procs == 1..NumProcs
\* inodes the lock path can name; 0 stands for "no file" / "no descriptor"
Inodes == 1..(NumProcs + 1)

\* the slugs of the organization, in the order the remote listing yields them
OrgListing == <<"alpha", "beta", "gamma", "delta">>

Min(a, b) == IF a < b THEN a ELSE b

RECURSIVE SumOver(_, _)
SumOver(f, S) == IF S = {} THEN 0
                 ELSE LET x == CHOOSE y \in S : TRUE
                      IN  f[x] + SumOver(f, S \ {x})

RunOutcomes == {"exit0", "nonzero", "timeout", "exception"}

VARIABLES
  \* ---- generate_config_for_projects / _add_single_project_with_lock, per process
  pc,            \* position of each process
  projects,      \* the list handed to generate_config_for_projects
  idx,           \* number of loop iterations completed (position of the for loop)
  added_count,
  failed_count,
  attempts,      \* history: slugs add_method was called with, in call order
  fd,            \* inode the process's open lock_file refers to, 0 = none
  result,        \* how subprocess.run ended in the current call, "none" outside
  unlinkTried,   \* history: the finally clause of the current call ran unlink
  waited,        \* ticks spent blocked in flock(LOCK_EX) in the current call
  runTime,       \* ticks the current tx add remote has been running
  \* ---- the shared working directory
  lockPath,      \* inode .tx/config.lock names, 0 = the file does not exist
  flockHolder,   \* inode -> process holding LOCK_EX on it, 0 = unlocked
  lastWrite,     \* history: the last mutation of .tx/config and whether its
                 \* writer held the lock at that moment
  \* ---- run()
  runPc,         \* stage of run(), "idle" outside SpecRun
  wanted,        \* config.project_slugs as a set; empty (or None) = all projects
  runProjects,   \* the list `projects` of run()
  consumed,      \* items of the remote listing discover_projects has read
  fileExists,    \* .tx/config exists
  configFile,    \* the lines of .tx/config, <<>> while it does not exist
  configAge,     \* hours since the config was modified, NoAge = stat failed
  config_exists,
  missing_projects,
  extra_projects,
  skip_config,
  backupMade,    \* history: config.backup.<time> was written by start fresh
  exitKind,      \* how run() ended: "none", "return", "sys_exit", "exception"
  pullStarted,   \* history: tx pull was started
  finalStatus,   \* the status the report states: "none", "success", "failed"
  reportWritten, \* download_report_<time>.txt was written
  \* ---- execute_bulk_download / _execute_with_progress_bars and the child
  monPc,         \* position of the monitor, "idle" outside SpecMonitor
  use_pty,       \* the child writes to a pseudo-terminal (else to a pipe)
  childState,    \* "running" or "exited"
  childCode,     \* exit status once exited
  streamOpen,    \* the child's end of the output stream is open
  outBuf,        \* lines written by the child and not yet read
  inReader,      \* how many of them are in the buffer of the reader object
  drainedBuffered, \* a line was read from that buffer after the child had exited
  linesWritten,  \* number of lines the child has written
  elapsed,       \* time.time() - start_time, in ticks
  waitExpired,   \* the 0.1 s of the pending select() have passed
  phase,
  last_displayed,  \* <<current, total>>, <<>> for the empty dict
  error_lines,
  lastLine,      \* history: the line the last _process_line call was given
  lastEvent,     \* what the last _process_line call printed about progress
  termSent,      \* process.terminate() was called
  master_file_closed,
  master_closed, \* os.close(master) was called (pseudo-terminal only)
  return_code,   \* returncode of the result object, NoCode = None
  bulkResult,    \* outcome of execute_bulk_download
  \* ---- _fix_config_quotes
  quotePc,       \* position in _fix_config_quotes / _fix_config_quotes_streaming
  large,         \* the file is over max_file_size: the streaming strategy is taken
  qExists,       \* .tx/config exists
  qContent,      \* text of .tx/config
  qOriginal,     \* original_content: the text at the start of the current call
  qBackupExists, \* the backup file of the current call exists
  qBackup,       \* its text
  qTempExists,   \* .tx/config.tmp exists
  qReturn,       \* value returned by the current call, "none" before
  qFailed,       \* history: an exception was raised in the current call
  qWrote,        \* history: the current call has written to .tx/config
  qPrevOk,       \* history: the call before this one ended without exception
  qCalls,        \* number of calls started
  \* ---- parse_existing_config_enhanced
  parsePc,       \* position in parse_existing_config_enhanced
  pExists,       \* the config file exists
  pFile,         \* its lines
  age_hours,     \* NoAge = None
  line_num,
  parseAcc,      \* all_resources, projects_with_resources, configured_projects
  parseRaised,   \* history: an exception was raised inside the try block
  snapshot,      \* the dictionary returned
  \* ---- subprocesses
  parent_env,    \* os.environ['TX_TOKEN'] of the downloader, "unset" if absent
  spawned,       \* argument vector and TX_TOKEN of the subprocess started last
  \* ---- the menu
  chosen         \* the option the menu displayed next to the number typed

lockVars == <<pc, projects, idx, added_count, failed_count, attempts, fd, result,
              unlinkTried, waited, runTime, lockPath, flockHolder, lastWrite>>

runVars == <<runPc, wanted, runProjects, consumed, fileExists, configFile, configAge,
             config_exists, missing_projects, extra_projects, skip_config,
             backupMade, exitKind, pullStarted, finalStatus, reportWritten>>

monVars == <<monPc, use_pty, childState, childCode, streamOpen, outBuf, inReader, drainedBuffered,
             linesWritten, elapsed, waitExpired, phase, last_displayed,
             error_lines, lastLine, lastEvent, termSent, master_file_closed,
             master_closed, return_code, bulkResult>>

quoteVars == <<quotePc, large, qExists, qContent, qOriginal, qBackupExists,
               qBackup, qTempExists, qReturn, qFailed, qWrote, qPrevOk, qCalls>>

parseVars == <<parsePc, pExists, pFile, age_hours, line_num, parseAcc,
               parseRaised, snapshot>>

spawnVars == <<parent_env, spawned>>

menuVars == <<chosen>>

vars == <<lockVars, runVars, monVars, quoteVars, parseVars, spawnVars, menuVars>>

\* ------------------------------------------------------------ lock helpers
InodeUsed(i) == lockPath = i \/ \E p \in Procs : fd[p] = i

\* open(path, 'w') on a missing file creates a new inode
FreshInode == CHOOSE i \in Inodes : ~InodeUsed(i) /\ \A j \in Inodes : j < i => InodeUsed(j)

HoldsLock(p) == fd[p] # 0 /\ flockHolder[fd[p]] = p

\* the process is between flock(LOCK_EX) returning and subprocess.run returning
InCriticalSection(p) == pc[p] = "running"

NoWrite == [op |-> "none", by |-> 0, locked |-> FALSE]

\* ------------------------------------------- generate_config_for_projects
\* lines 683-697: empty list returns 0 at once, else the counters start at 0
GenStart(p) ==
  /\ pc[p] = "start"
  /\ pc' = [pc EXCEPT ![p] = IF projects[p] = <<>> THEN "done" ELSE "loop"]
  /\ UNCHANGED <<projects, idx, added_count, failed_count, attempts, fd, result,
                 unlinkTried, waited, runTime, lockPath, flockHolder, lastWrite>>

\* for-loop picks the next project and calls add_method; lines 578-583:
\* mkdir + open(lock_file_path, 'w'): an existing file is reopened (same
\* inode), a missing one is created
OpenLock(p) ==
  /\ pc[p] = "loop"
  /\ idx[p] < Len(projects[p])
  /\ attempts' = [attempts EXCEPT ![p] = Append(@, projects[p][idx[p] + 1])]
  /\ unlinkTried' = [unlinkTried EXCEPT ![p] = FALSE]
  /\ waited' = [waited EXCEPT ![p] = 0]
  /\ LET i == IF lockPath # 0 THEN lockPath ELSE FreshInode
     IN  /\ fd' = [fd EXCEPT ![p] = i]
         /\ lockPath' = i
  /\ pc' = [pc EXCEPT ![p] = "opened"]
  /\ UNCHANGED <<projects, idx, added_count, failed_count, runTime, flockHolder,
                 lastWrite, result>>

\* line 586: flock(LOCK_EX) returns once nobody holds the lock on this inode;
\* line 589: subprocess.run starts
AcquireLock(p) ==
  /\ pc[p] = "opened"
  /\ flockHolder[fd[p]] = 0
  /\ flockHolder' = [flockHolder EXCEPT ![fd[p]] = p]
  /\ pc' = [pc EXCEPT ![p] = "running"]
  /\ runTime' = [runTime EXCEPT ![p] = 0]
  /\ waited' = [waited EXCEPT ![p] = 0]
  /\ UNCHANGED <<projects, idx, added_count, failed_count, attempts, fd, result,
                 unlinkTried, lockPath, lastWrite>>

\* lines 589-596: subprocess.run returns or raises; tx add remote has written
\* .tx/config meanwhile. TimeoutExpired is raised only at add_remote_timeout.
RunEnd(p, o) ==
  /\ pc[p] = "running"
  /\ o = "timeout" => runTime[p] = TimeoutTicks
  /\ result' = [result EXCEPT ![p] = o]
  /\ lastWrite' = [op |-> "add_remote", by |-> p, locked |-> HoldsLock(p)]
  /\ pc' = [pc EXCEPT ![p] = "ran"]
  /\ runTime' = [runTime EXCEPT ![p] = 0]
  /\ UNCHANGED <<projects, idx, added_count, failed_count, attempts, fd,
                 unlinkTried, waited, lockPath, flockHolder>>

\* a release that only the normal path reaches (no finally, no with-block)
ReleaseLockNoFinally(p) ==
  /\ pc[p] = "ran"
  /\ IF result[p] \in {"exit0", "nonzero"}
       THEN /\ flockHolder' = [i \in Inodes |-> IF flockHolder[i] = p THEN 0
                                                 ELSE flockHolder[i]]
            /\ fd' = [fd EXCEPT ![p] = 0]
       ELSE UNCHANGED <<flockHolder, fd>>
  /\ pc' = [pc EXCEPT ![p] = "closed"]
  /\ UNCHANGED <<projects, idx, added_count, failed_count, attempts, result,
                 unlinkTried, waited, runTime, lockPath, lastWrite>>

\* lines 598-600 and the exit of the with-block: flock(LOCK_UN), then close;
\* both run on every way out of subprocess.run
ReleaseLock(p) ==
  /\ pc[p] = "ran"
  /\ flockHolder' = [i \in Inodes |-> IF flockHolder[i] = p THEN 0
                                       ELSE flockHolder[i]]
  /\ fd' = [fd EXCEPT ![p] = 0]
  /\ pc' = [pc EXCEPT ![p] = "closed"]
  /\ UNCHANGED <<projects, idx, added_count, failed_count, attempts, result,
                 unlinkTried, waited, runTime, lockPath, lastWrite>>

\* lines 602-631: the result tuple is built (or the except clause builds it),
\* the outer finally unlinks .tx/config.lock (missing_ok), the call returns
UnlinkReturn(p) ==
  /\ pc[p] = "closed"
  /\ lockPath' = 0
  /\ unlinkTried' = [unlinkTried EXCEPT ![p] = TRUE]
  /\ pc' = [pc EXCEPT ![p] = "returned"]
  /\ UNCHANGED <<projects, idx, added_count, failed_count, attempts, fd, result,
                 waited, runTime, flockHolder, lastWrite>>

\* a loop that gives up at the first failed project
CountResultAbort(p) ==
  /\ pc[p] = "returned"
  /\ IF result[p] = "exit0"
       THEN /\ added_count' = [added_count EXCEPT ![p] = @ + 1]
            /\ idx' = [idx EXCEPT ![p] = @ + 1]
            /\ UNCHANGED failed_count
       ELSE /\ failed_count' = [failed_count EXCEPT ![p] = @ + 1]
            /\ idx' = [idx EXCEPT ![p] = Len(projects[p])]
            /\ UNCHANGED added_count
  /\ result' = [result EXCEPT ![p] = "none"]
  /\ pc' = [pc EXCEPT ![p] = "loop"]
  /\ UNCHANGED <<projects, attempts, fd, unlinkTried, waited, runTime, lockPath,
                 flockHolder, lastWrite>>

\* lines 708-719: success = (returncode == 0) counts as added, everything
\* else (non-zero exit, timeout, exception) as failed; the loop goes on
CountResult(p) ==
  /\ pc[p] = "returned"
  /\ IF result[p] = "exit0"
       THEN /\ added_count' = [added_count EXCEPT ![p] = @ + 1]
            /\ UNCHANGED failed_count
       ELSE /\ failed_count' = [failed_count EXCEPT ![p] = @ + 1]
            /\ UNCHANGED added_count
  /\ idx' = [idx EXCEPT ![p] = @ + 1]
  /\ result' = [result EXCEPT ![p] = "none"]
  /\ pc' = [pc EXCEPT ![p] = "loop"]
  /\ UNCHANGED <<projects, attempts, fd, unlinkTried, waited, runTime, lockPath,
                 flockHolder, lastWrite>>

\* lines 727-753: the loop is over; with added_count > 0 _fix_config_quotes
\* runs on .tx/config and rewrites it when it finds a quote (modified); the
\* function returns added_count
FinishBatch(p, modified) ==
  /\ pc[p] = "loop"
  /\ idx[p] = Len(projects[p])
  /\ modified => added_count[p] > 0
  /\ lastWrite' = IF modified
                    THEN [op |-> "fix_quotes", by |-> p, locked |-> HoldsLock(p)]
                    ELSE lastWrite
  /\ pc' = [pc EXCEPT ![p] = "done"]
  /\ UNCHANGED <<projects, idx, added_count, failed_count, attempts, fd, result,
                 unlinkTried, waited, runTime, lockPath, flockHolder>>

\* ------------------------------------------------------------------ clock
\* A process consumes time only where the code blocks: inside subprocess.run
\* (up to add_remote_timeout) and inside flock(LOCK_EX) while the lock is
\* held; a run that has not started may start at any later time.
TimeBlocked(p) ==
  \/ pc[p] \in {"start", "done"}
  \/ pc[p] = "running" /\ runTime[p] < TimeoutTicks
  \/ pc[p] = "opened" /\ flockHolder[fd[p]] # 0

Tick ==
  /\ \A p \in Procs : TimeBlocked(p)
  /\ \E p \in Procs : pc[p] = "running"
  /\ runTime' = [p \in Procs |-> IF pc[p] = "running" THEN runTime[p] + 1
                                 ELSE runTime[p]]
  /\ waited' = [p \in Procs |-> IF pc[p] = "opened"
                                  THEN Min(waited[p] + 1, TimeoutTicks + 1)
                                  ELSE waited[p]]
  /\ UNCHANGED <<pc, projects, idx, added_count, failed_count, attempts, fd,
                 result, unlinkTried, lockPath, flockHolder, lastWrite>>


\* =================================================================== run()
\* the process that executes run() in SpecRun
Self == Min(1, NumProcs)

\* config.organization_slug
OrganizationSlug == "myorg"

AllProjects == {}
NoAge == -1

\* lines of a .tx/config: a section header [o:ORG:p:PROJECT:r:RESOURCE], or
\* any other line; long: the line has more than 10000 characters
Header(o, p, r) == [kind |-> "header", org |-> o, project |-> p, resource |-> r,
                    long |-> FALSE]
TextLine == [kind |-> "text", org |-> "", project |-> "", resource |-> "",
             long |-> FALSE]
LongLine(l) == [l EXCEPT !.long = TRUE]
ConfigLines == {Header("myorg", "alpha", "r1"), Header("myorg", "gamma", "r1"),
                Header("other", "beta", "r1"), TextLine}

RECURSIVE SeqsUpTo(_, _)
SeqsUpTo(S, n) == IF n = 0 THEN {<<>>}
                  ELSE LET shorter == SeqsUpTo(S, n - 1)
                       IN  shorter \cup {Append(q, x) : q \in {r \in shorter : Len(r) = n - 1}, x \in S}

SlugSet(list) == {list[i] : i \in 1..Len(list)}

\* the remote listing of the organization: the first MaxProjects slugs
Listing == SubSeq(OrgListing, 1, MaxProjects)

\* a loop without the early exit of lines 271-272
RECURSIVE DiscoverFilteredNoBreak(_, _, _, _, _)
DiscoverFilteredNoBreak(listing, target, i, filtered, found) ==
  IF i > Len(listing)
    THEN [projects |-> filtered, consumed |-> Len(listing), exhausted |-> TRUE]
  ELSE IF listing[i] \in target
    THEN DiscoverFilteredNoBreak(listing, target, i + 1, Append(filtered, listing[i]),
                                 found \cup {listing[i]})
    ELSE DiscoverFilteredNoBreak(listing, target, i + 1, filtered, found)

\* discover_projects, lines 260-285: with project_slugs the listing is read
\* until every wanted slug was seen; without, all of it is read. consumed is
\* the number of projects taken from the iterator, exhausted tells that the
\* loop asked for one more after the last.
RECURSIVE DiscoverFiltered(_, _, _, _, _)
DiscoverFiltered(listing, target, i, filtered, found) ==
  IF i > Len(listing)
    THEN [projects |-> filtered, consumed |-> Len(listing), exhausted |-> TRUE]
  ELSE IF listing[i] \in target
    THEN IF Cardinality(found \cup {listing[i]}) = Cardinality(target)
           THEN [projects |-> Append(filtered, listing[i]), consumed |-> i,
                 exhausted |-> FALSE]
           ELSE DiscoverFiltered(listing, target, i + 1, Append(filtered, listing[i]),
                                 found \cup {listing[i]})
    ELSE DiscoverFiltered(listing, target, i + 1, filtered, found)

discover_projects(listing, project_slugs) ==
  IF project_slugs # AllProjects
    THEN DiscoverFiltered(listing, project_slugs, 1, <<>>, {})
    ELSE [projects |-> listing, consumed |-> Len(listing), exhausted |-> TRUE]

\* a loop body that counts the header of any organization
ProcessLineAnyOrg(acc, l) ==
  IF l.kind = "header"
    THEN [all_resources |-> Append(acc.all_resources, l),
          configured_projects |-> acc.configured_projects \cup {l.project},
          projects_with_resources |->
            [q \in DOMAIN acc.projects_with_resources \cup {l.project} |->
               IF q \in DOMAIN acc.projects_with_resources
                 THEN acc.projects_with_resources[q] + (IF q = l.project THEN 1 ELSE 0)
                 ELSE 1]]
    ELSE acc

\* lines 329-344: resource_pattern.search(line); a header of the configured
\* organization adds a resource entry, its project to configured_projects and
\* one to the project's count
ProcessLine(acc, l) ==
  IF l.kind = "header" /\ l.org = OrganizationSlug
    THEN [all_resources |-> Append(acc.all_resources, l),
          configured_projects |-> acc.configured_projects \cup {l.project},
          projects_with_resources |->
            [q \in DOMAIN acc.projects_with_resources \cup {l.project} |->
               IF q \in DOMAIN acc.projects_with_resources
                 THEN acc.projects_with_resources[q] + (IF q = l.project THEN 1 ELSE 0)
                 ELSE 1]]
    ELSE acc

\* lines 323-349, the loop over the lines: a long line is passed over by
\* "continue" (line 327), which also passes over the test of line 347; any
\* other line is processed and ends the loop when its number is over the limit
RECURSIVE ParseLines(_, _, _)
ParseLines(lines, i, acc) ==
  IF i > Len(lines) THEN acc
  ELSE IF lines[i].long THEN ParseLines(lines, i + 1, acc)
  ELSE IF i > LineLimit THEN ProcessLine(acc, lines[i])
  ELSE ParseLines(lines, i + 1, ProcessLine(acc, lines[i]))

EmptyAnalysis == [all_resources |-> <<>>, configured_projects |-> {},
                  projects_with_resources |-> <<>>]

\* a result whose total is the number of configured projects
BuildSnapshotProjectTotal(age, acc) ==
  [config_exists |-> TRUE, config_age_hours |-> age,
   total_resources |-> Cardinality(acc.configured_projects),
   projects_with_resources |-> acc.projects_with_resources,
   all_resources |-> acc.all_resources,
   configured_projects |-> acc.configured_projects]

\* lines 351-358: the result after the loop
BuildSnapshot(age, acc) ==
  [config_exists |-> TRUE, config_age_hours |-> age,
   total_resources |-> Len(acc.all_resources),
   projects_with_resources |-> acc.projects_with_resources,
   all_resources |-> acc.all_resources,
   configured_projects |-> acc.configured_projects]

\* lines 293-300 (file absent) and 362-369 (the except clause)
EmptySnapshot(exists, age) ==
  [config_exists |-> exists, config_age_hours |-> age, total_resources |-> 0,
   projects_with_resources |-> <<>>, all_resources |-> <<>>,
   configured_projects |-> {}]

\* the function as a whole, for a file that is read without an exception
parse_existing_config_enhanced(exists, file, age) ==
  IF ~exists
    THEN EmptySnapshot(FALSE, NoAge)
    ELSE BuildSnapshot(age, ParseLines(file, 1, EmptyAnalysis))

\* check_existing_config_enhanced, lines 371-392
check_existing_config_enhanced(exists, file, age, projs) ==
  LET analysis == parse_existing_config_enhanced(exists, file, age)
      discovered == SlugSet(projs)
      configured == analysis.configured_projects
  IN  IF ~analysis.config_exists
        THEN [exists |-> FALSE, analysis |-> analysis, missing |-> {}, extra |-> {}]
      ELSE IF configured = {}
        THEN [exists |-> TRUE, analysis |-> analysis, missing |-> {}, extra |-> {}]
        ELSE [exists |-> TRUE, analysis |-> analysis,
              missing |-> discovered \ configured, extra |-> configured \ discovered]

\* Python truth value of config_analysis['config_age_hours']: None and 0 are false
AgeKnown(age) == age # NoAge /\ age # 0

\* the menu of setup_working_directory, lines 470-529. choice is the number
\* typed, 0 for any other input. The result names the branch taken:
\*   "use_existing"  return (work_dir, True)
\*   "add_missing"   projects[:] = the missing ones; return (work_dir, False)
\*   "check"         return (work_dir, False)
\*   "start_fresh"   fall through to the start fresh logic of line 531
\*   "cancel", "invalid"   sys.exit(0)
MenuOutcome(missing, age, choice) ==
  IF missing = {} /\ AgeKnown(age) /\ age < 24
    THEN \* lines 472-483: no else branch, every other input falls through
         IF choice = 1 THEN "use_existing"
         ELSE IF choice = 2 THEN "check"
         ELSE "start_fresh"
    ELSE LET old == AgeKnown(age) /\ age > 72
             fresh0 == IF missing # {} THEN 3 ELSE 2
             \* check_choice exists only for a config older than 72 h
             check_choice == IF old THEN fresh0 ELSE 0
             start_fresh_choice == IF old THEN fresh0 + 1 ELSE fresh0
             cancel_choice == start_fresh_choice + 1
         IN  IF choice = 1
               THEN IF missing # {} THEN "add_missing" ELSE "use_existing"
             ELSE IF choice = 2 /\ missing # {} THEN "use_existing"
             ELSE IF choice \in {start_fresh_choice, 2} /\ missing = {} THEN "start_fresh"
             \* line 522: without check_choice the condition is the string
             \* "never", which is true
             ELSE IF (IF old THEN choice = check_choice ELSE TRUE) THEN "check"
             ELSE IF choice = cancel_choice THEN "cancel"
             ELSE "invalid"

\* what the menu printed next to the number typed (lines 474-477, 487-506):
\* "unlisted" when no line of the menu carries that number
MenuLabel(missing, age, choice) ==
  IF missing = {} /\ AgeKnown(age) /\ age < 24
    THEN CASE choice = 1 -> "use_existing"
           [] choice = 2 -> "check"
           [] choice = 3 -> "start_fresh"
           [] choice = 4 -> "cancel"
           [] OTHER -> "unlisted"
    ELSE LET old == AgeKnown(age) /\ age > 72
             fresh0 == IF missing # {} THEN 3 ELSE 2
             check_choice == IF old THEN fresh0 ELSE 0
             start_fresh_choice == IF old THEN fresh0 + 1 ELSE fresh0
             cancel_choice == start_fresh_choice + 1
         IN  CASE choice = 1 -> IF missing # {} THEN "add_missing" ELSE "use_existing"
               [] choice = 2 /\ missing # {} -> "use_existing"
               [] choice # 0 /\ choice = check_choice -> "check"
               [] choice = start_fresh_choice -> "start_fresh"
               [] choice = cancel_choice -> "cancel"
               [] OTHER -> "unlisted"

Choices == 0..5

\* ---- the subprocesses and their environment
\* config.api_token
ApiToken == "secret"

\* what os.environ can hold under TX_TOKEN: nothing (the token came from the
\* settings file, TRANSIFEX_API_TOKEN or the prompt, lines 1399-1417), the
\* token itself, or another token that the settings file overrides
ParentEnvs == {"unset", ApiToken, "other"}

\* line 214
TxVersionCmd == <<"tx", "--version">>
\* lines 541 and 549
TxInitCmd == <<"tx", "init">>
\* lines 560-573: the project URL is made of the organization and project slug
AddRemoteCmd(slug) ==
  <<"tx", "add", "remote", "--file-filter", "file_filter", OrganizationSlug, slug>>
\* lines 1169-1201: the options come from the download settings
PullCmd == <<"tx", "pull", "options", "--workers", "workers">>

\* subprocess.run / Popen: with env=env the child gets the copy of os.environ
\* in which TX_TOKEN was set to api_token (lines 557-558, 1204-1205); without
\* env it inherits os.environ
Launch(argv, with_env) ==
  [argv |-> argv, tx_token |-> IF with_env THEN ApiToken ELSE parent_env]

NoSpawn == [argv |-> <<>>, tx_token |-> "unset"]

SpawnIdle == parent_env = "unset" /\ spawned = NoSpawn

MenuIdle == chosen = "unset"

\* __init__, lines 151-163: _verify_cli_available runs tx --version; if it
\* fails the process exits before run() is called
RunVerifyCli(ok) ==
  /\ runPc = "new"
  /\ runPc' = IF ok THEN "discover" ELSE "no_run"
  /\ spawned' = Launch(TxVersionCmd, FALSE)
  /\ UNCHANGED <<wanted, runProjects, consumed, fileExists, configFile, configAge,
                 config_exists, missing_projects, extra_projects, skip_config,
                 backupMade, exitKind, pullStarted, finalStatus, reportWritten>>
  /\ UNCHANGED <<lockVars, monVars, parent_env>>

RunEnded(kind) ==
  /\ runPc' = "ended"
  /\ exitKind' = kind

\* run(), lines 1366-1371: validate_token_and_org and discover_projects; any
\* failure is a ValueError caught by run's except clause
RunDiscover(ok) ==
  /\ runPc = "discover"
  /\ IF ~ok
       THEN /\ RunEnded("exception")
            /\ UNCHANGED <<runProjects, consumed>>
       ELSE LET d == discover_projects(Listing, wanted)
            IN  /\ runProjects' = d.projects
                /\ consumed' = d.consumed
                /\ IF d.projects = <<>>
                     THEN RunEnded("return")
                     ELSE runPc' = "setup" /\ UNCHANGED exitKind
  /\ UNCHANGED <<wanted, fileExists, configFile, configAge, config_exists, missing_projects,
                 extra_projects, skip_config, backupMade, pullStarted, finalStatus,
                 reportWritten>>
  /\ UNCHANGED <<lockVars, monVars>>

\* setup_working_directory, lines 439-458 and 546-553: the existing config is
\* analysed and its quotes fixed (modified: the file was rewritten), or a new
\* project is initialised with tx init (initOk: it exited with 0)
RunSetup(modified, initOk) ==
  /\ runPc = "setup"
  /\ LET c == check_existing_config_enhanced(fileExists, configFile, configAge, runProjects)
     IN  /\ config_exists' = c.exists
         /\ missing_projects' = c.missing
         /\ extra_projects' = c.extra
         /\ IF c.exists
              THEN /\ initOk
                   /\ lastWrite' = IF modified
                                     THEN [op |-> "fix_quotes", by |-> Self,
                                           locked |-> HoldsLock(Self)]
                                     ELSE lastWrite
                   /\ runPc' = "menu"
                   /\ UNCHANGED <<fileExists, configFile, exitKind>>
              ELSE /\ ~modified
                   /\ lastWrite' = [op |-> "tx_init", by |-> Self,
                                    locked |-> HoldsLock(Self)]
                   /\ fileExists' = initOk
                   /\ configFile' = <<>>
                   /\ IF initOk THEN runPc' = "config" /\ UNCHANGED exitKind
                                ELSE RunEnded("exception")
  /\ UNCHANGED <<wanted, runProjects, consumed, configAge, skip_config, backupMade,
                 pullStarted, finalStatus, reportWritten>>
  /\ UNCHANGED <<pc, projects, idx, added_count, failed_count, attempts, fd, result,
                 unlinkTried, waited, runTime, lockPath, flockHolder>>
  /\ UNCHANGED monVars

\* lines 468-529: the menu is shown and the answer read
RunMenu(choice) ==
  /\ runPc = "menu"
  /\ LET o == MenuOutcome(missing_projects, configAge, choice)
     IN  /\ runPc' = CASE o = "use_existing" -> "pull"
                       [] o \in {"add_missing", "check"} -> "config"
                       [] o = "start_fresh" -> "fresh_backup"
                       [] OTHER -> "ended"
         /\ exitKind' = IF o \in {"cancel", "invalid"} THEN "sys_exit" ELSE exitKind
         /\ skip_config' = (o = "use_existing")
         /\ runProjects' = IF o = "add_missing"
                             THEN SelectSeq(runProjects, LAMBDA x : x \in missing_projects)
                             ELSE runProjects
  /\ UNCHANGED <<wanted, consumed, fileExists, configFile, configAge, config_exists,
                 missing_projects, extra_projects, backupMade, pullStarted,
                 finalStatus, reportWritten>>
  /\ UNCHANGED <<lockVars, monVars>>

\* lines 532-534: shutil.copy2 of the config to config.backup.<time>
RunFreshBackup(ok) ==
  /\ runPc = "fresh_backup"
  /\ IF ok THEN /\ backupMade' = TRUE
                /\ runPc' = "fresh_unlink"
                /\ UNCHANGED exitKind
           ELSE /\ RunEnded("exception")
                /\ UNCHANGED backupMade
  /\ UNCHANGED <<wanted, runProjects, consumed, fileExists, configFile, configAge, config_exists,
                 missing_projects, extra_projects, skip_config, pullStarted,
                 finalStatus, reportWritten>>
  /\ UNCHANGED <<lockVars, monVars>>

\* line 537: tx_config_path.unlink()
RunFreshUnlink ==
  /\ runPc = "fresh_unlink"
  /\ fileExists' = FALSE
  /\ configFile' = <<>>
  /\ lastWrite' = [op |-> "unlink_config", by |-> Self, locked |-> HoldsLock(Self)]
  /\ runPc' = "fresh_init"
  /\ UNCHANGED <<wanted, runProjects, consumed, configAge, config_exists,
                 missing_projects, extra_projects, skip_config, backupMade, exitKind,
                 pullStarted, finalStatus, reportWritten>>
  /\ UNCHANGED <<pc, projects, idx, added_count, failed_count, attempts, fd, result,
                 unlinkTried, waited, runTime, lockPath, flockHolder>>
  /\ UNCHANGED monVars

\* lines 540-545: tx init; a non-zero exit raises RuntimeError
RunFreshInit(ok) ==
  /\ runPc = "fresh_init"
  /\ lastWrite' = [op |-> "tx_init", by |-> Self, locked |-> HoldsLock(Self)]
  /\ IF ok THEN /\ fileExists' = TRUE
                /\ configFile' = <<>>
                /\ runPc' = "config"
                /\ UNCHANGED exitKind
           ELSE /\ RunEnded("exception")
                /\ UNCHANGED <<fileExists, configFile>>
  /\ UNCHANGED <<wanted, runProjects, consumed, configAge, config_exists,
                 missing_projects, extra_projects, skip_config, backupMade,
                 pullStarted, finalStatus, reportWritten>>
  /\ UNCHANGED <<pc, projects, idx, added_count, failed_count, attempts, fd, result,
                 unlinkTried, waited, runTime, lockPath, flockHolder>>
  /\ UNCHANGED monVars

\* line 1377: generate_config_for_projects(projects, work_dir) is called
RunConfigStart ==
  /\ runPc = "config"
  /\ pc[Self] = "idle"
  /\ pc' = [pc EXCEPT ![Self] = "start"]
  /\ projects' = [projects EXCEPT ![Self] = runProjects]
  /\ UNCHANGED <<idx, added_count, failed_count, attempts, fd, result, unlinkTried,
                 waited, runTime, lockPath, flockHolder, lastWrite>>
  /\ UNCHANGED <<runVars, monVars>>

\* a run that goes on to pull whatever was added
RunConfigDoneAlwaysPull ==
  /\ runPc = "config"
  /\ pc[Self] = "done"
  /\ runPc' = "pull" /\ UNCHANGED exitKind
  /\ UNCHANGED <<wanted, runProjects, consumed, fileExists, configFile, configAge, config_exists,
                 missing_projects, extra_projects, skip_config, backupMade,
                 pullStarted, finalStatus, reportWritten>>
  /\ UNCHANGED <<lockVars, monVars>>

\* lines 1379-1381: with nothing added run() returns, else it goes on to pull
RunConfigDone ==
  /\ runPc = "config"
  /\ pc[Self] = "done"
  /\ IF added_count[Self] = 0
       THEN RunEnded("return")
       ELSE runPc' = "pull" /\ UNCHANGED exitKind
  /\ UNCHANGED <<wanted, runProjects, consumed, fileExists, configFile, configAge, config_exists,
                 missing_projects, extra_projects, skip_config, backupMade,
                 pullStarted, finalStatus, reportWritten>>
  /\ UNCHANGED <<lockVars, monVars>>

PullOutcomes == {"exit0", "nonzero", "timeout", "error"}

\* execute_bulk_download, lines 1214-1259: tx pull runs; success is exit
\* code 0, every failure comes back as (False, message)
RunPull(o) ==
  /\ runPc = "pull"
  /\ pullStarted' = TRUE
  /\ finalStatus' = IF o = "exit0" THEN "success" ELSE "failed"
  /\ runPc' = "report"
  /\ UNCHANGED <<wanted, runProjects, consumed, fileExists, configFile, configAge, config_exists,
                 missing_projects, extra_projects, skip_config, backupMade, exitKind,
                 reportWritten>>
  /\ UNCHANGED <<lockVars, monVars>>

\* generate_download_report, lines 1261-1347: the status is printed and the
\* report file written; a failed write is swallowed (lines 1344-1345)
RunReport(writeOk) ==
  /\ runPc = "report"
  /\ reportWritten' = writeOk
  /\ RunEnded("return")
  /\ UNCHANGED <<wanted, runProjects, consumed, fileExists, configFile, configAge, config_exists,
                 missing_projects, extra_projects, skip_config, backupMade,
                 pullStarted, finalStatus>>
  /\ UNCHANGED <<lockVars, monVars>>


\* ================================================== the progress monitor
\* A line of child output is a sequence of tokens: single characters where
\* the code looks at characters ("(", "/", ")", digits, blanks, "NL" for the
\* newline) and whole words elsewhere.
InfoMarker == "# Getting info about resources"
PullMarker == "# Pulling files"
Blanks == {" ", "NL"}
Digits == {"0", "1", "2", "3"}
DigitValue(d) == CASE d = "0" -> 0 [] d = "1" -> 1 [] d = "2" -> 2 [] d = "3" -> 3

\* str.lower() on the words the child writes
Lower(tok) == CASE tok = "ERROR:" -> "error:"
                [] tok = "Failed" -> "failed"
                [] OTHER -> tok

\* what the tx pull child can write
SampleLines == {
  <<InfoMarker, "NL">>,
  <<" ", PullMarker, "NL">>,
  <<"x", "(", "1", " ", "/", " ", "2", ")", "NL">>,
  <<"(", "2", "/", "2", ")", "NL">>,
  <<"(", "1", "/", "3", ")", "NL">>,
  <<"(", "0", "/", "0", ")", "NL">>,
  <<"(", "1", "/", ")", "NL">>,
  <<"ERROR:", "x", "NL">>,
  <<"warning:", "x", "NL">>,
  <<"x", "NL">> }

\* pairs of lines that come in one write
Bursts == {
  << <<" ", PullMarker, "NL">>, <<"(", "2", "/", "2", ")", "NL">> >>,
  << <<"(", "2", "/", "2", ")", "NL">>, <<"ERROR:", "x", "NL">> >> }

\* str.strip()
RECURSIVE LStrip(_)
LStrip(s) == IF s # <<>> /\ Head(s) \in Blanks THEN LStrip(Tail(s)) ELSE s
RECURSIVE RStrip(_)
RStrip(s) == IF s # <<>> /\ s[Len(s)] \in Blanks THEN RStrip(SubSeq(s, 1, Len(s) - 1)) ELSE s
Strip(s) == RStrip(LStrip(s))

Contains(s, tok) == \E i \in 1..Len(s) : s[i] = tok

\* re.search(r'\(\s*(\d+)\s*/\s*(\d+)\s*\)', s): the first position it matches at
RECURSIVE SkipBlanks(_, _)
SkipBlanks(s, i) == IF i <= Len(s) /\ s[i] \in Blanks THEN SkipBlanks(s, i + 1) ELSE i
RECURSIVE DigitsEnd(_, _)
DigitsEnd(s, i) == IF i <= Len(s) /\ s[i] \in Digits THEN DigitsEnd(s, i + 1) ELSE i
\* int() of the digits s[i..j-1]
RECURSIVE IntOf(_, _, _)
IntOf(s, i, j) == IF i >= j THEN 0
                  ELSE IntOf(s, i, j - 1) * 10 + DigitValue(s[j - 1])

NoMatch == <<>>
MatchAt(s, i) ==
  IF ~(i <= Len(s) /\ s[i] = "(") THEN NoMatch
  ELSE LET a == SkipBlanks(s, i + 1)
           b == DigitsEnd(s, a)
           c == SkipBlanks(s, b)
       IN  IF ~(b > a /\ c <= Len(s) /\ s[c] = "/") THEN NoMatch
           ELSE LET d == SkipBlanks(s, c + 1)
                    e == DigitsEnd(s, d)
                    f == SkipBlanks(s, e)
                IN  IF e > d /\ f <= Len(s) /\ s[f] = ")"
                      THEN <<IntOf(s, a, b), IntOf(s, d, e)>>
                      ELSE NoMatch
RECURSIVE SearchFrom(_, _)
SearchFrom(s, i) == IF i > Len(s) THEN NoMatch
                    ELSE IF MatchAt(s, i) # NoMatch THEN MatchAt(s, i)
                    ELSE SearchFrom(s, i + 1)
ProgressMatch(s) == SearchFrom(s, 1)

DisplayKeywords == {"error:", "failed", "timeout", "warning:", "abort", "exception"}
StoredKeywords == {"error:", "failed", "exception"}
HasKeyword(s, keys) == \E i \in 1..Len(s) : Lower(s[i]) \in keys

\* max_error_lines, line 1038
max_error_lines == 20

\* a comparison that needs both numbers to change
PairChangedBoth(last, current, total) ==
  last = <<>> \/ (current # last[1] /\ total # last[2])

\* line 959: current != last_displayed.get('current') or total != ...get('total')
PairChanged(last, current, total) ==
  last = <<>> \/ current # last[1] \/ total # last[2]

\* _process_line, lines 926-989. Returns the new phase, the new
\* last_displayed and what was printed about progress: "none", "render", "complete"
\* (a render followed by the check mark) or "info_done" (line 943).
process_line(line, ph, last) ==
  LET line_stripped == Strip(line)
      \* lines 931-949
      marked ==
        IF line_stripped = <<InfoMarker>>
          THEN [phase |-> "info", last |-> <<0, 0>>, event |-> "none"]
        ELSE IF line_stripped = <<PullMarker>>
          THEN [phase |-> "downloading", last |-> <<0, 0>>,
                event |-> IF ph = "info" /\ last # <<>> /\ last[2] > 0 /\ last[1] < last[2]
                            THEN "info_done" ELSE "none"]
        ELSE [phase |-> ph, last |-> last, event |-> "none"]
      m == ProgressMatch(line_stripped)
  IN  \* lines 952-975
      IF /\ Contains(line_stripped, "(") /\ Contains(line_stripped, "/")
         /\ Contains(line_stripped, ")") /\ m # NoMatch
         /\ PairChanged(marked.last, m[1], m[2])
        THEN [phase |-> marked.phase, last |-> m,
              event |-> IF m[1] = m[2] /\ m[2] > 0 THEN "complete" ELSE "render"]
        ELSE marked

\* a store without the test of line 1076
StoreErrorNoCap(errs, line) ==
  IF HasKeyword(line, StoredKeywords) THEN Append(errs, Strip(line)) ELSE errs

\* lines 1075-1077, 1097-1099, 1116-1118
StoreError(errs, line) ==
  IF HasKeyword(line, StoredKeywords) /\ Len(errs) < max_error_lines
    THEN Append(errs, Strip(line))
    ELSE errs

NoCode == -1
NotReturned == -2

\* the monitor takes the next line off the stream and processes it. outBuf
\* holds the lines not processed yet, oldest first: the first inReader of them
\* sit in the buffer of the reader object (master_file), the others are
\* still in the pipe or pseudo-terminal
ConsumeLine ==
  LET r == process_line(Head(outBuf), phase, last_displayed)
  IN  /\ outBuf' = Tail(outBuf)
      /\ phase' = r.phase
      /\ last_displayed' = r.last
      /\ lastLine' = Head(outBuf)
      /\ lastEvent' = r.event
      /\ error_lines' = StoreError(error_lines, Head(outBuf))
      \* readline answers from the reader's buffer if a line is there; else it
      \* reads all that the descriptor has and keeps the rest in the buffer
      \* (on the pipe nothing but readline looks at the descriptor, and the
      \* split is not followed)
      /\ inReader' = IF ~use_pty THEN 0
                     ELSE IF inReader > 0 THEN inReader - 1 ELSE Len(outBuf) - 1
      /\ drainedBuffered' = (drainedBuffered \/ (monPc = "drain" /\ inReader > 0))

\* ---- the child
ChildWriteUpTo(l, max) ==
  /\ monPc \notin {"idle", "done"}
  /\ childState = "running" /\ streamOpen
  /\ linesWritten < max
  /\ Len(outBuf) < MaxBuf
  /\ outBuf' = Append(outBuf, l)
  /\ linesWritten' = linesWritten + 1
  /\ UNCHANGED <<monPc, use_pty, childState, childCode, streamOpen, inReader, drainedBuffered,
                 elapsed, waitExpired, phase, last_displayed, error_lines, lastLine, lastEvent, termSent,
                 master_file_closed, master_closed, return_code, bulkResult>>

ChildWrite(l) == ChildWriteUpTo(l, MaxLines)

\* one write of the child that carries two lines
ChildWriteBurst(l1, l2) ==
  /\ monPc \notin {"idle", "done"}
  /\ childState = "running" /\ streamOpen
  /\ linesWritten + 2 <= MaxLines
  /\ Len(outBuf) < MaxBuf
  /\ outBuf' = outBuf \o <<l1, l2>>
  /\ linesWritten' = linesWritten + 2
  /\ UNCHANGED <<monPc, use_pty, childState, childCode, streamOpen, inReader, drainedBuffered,
                 elapsed, waitExpired, phase, last_displayed, error_lines, lastLine,
                 lastEvent, termSent, master_file_closed, master_closed, return_code,
                 bulkResult>>

\* the child's descriptors are closed before its exit status can be collected
ChildCloseStream ==
  /\ monPc \notin {"idle", "done"}
  /\ childState = "running" /\ streamOpen
  /\ streamOpen' = FALSE
  /\ UNCHANGED <<monPc, use_pty, childState, childCode, outBuf, inReader, drainedBuffered, linesWritten,
                 elapsed, waitExpired, phase, last_displayed, error_lines, lastLine, lastEvent,
                 termSent, master_file_closed, master_closed, return_code, bulkResult>>

ChildExit(code) ==
  /\ monPc \notin {"idle", "done"}
  /\ childState = "running" /\ ~streamOpen
  /\ childState' = "exited"
  /\ childCode' = code
  /\ UNCHANGED <<monPc, use_pty, streamOpen, outBuf, inReader, drainedBuffered, linesWritten, elapsed,
                 waitExpired, phase, last_displayed, error_lines, lastLine, lastEvent, termSent,
                 master_file_closed, master_closed, return_code, bulkResult>>

\* ---- _execute_with_progress_bars
\* lines 1043-1046 and 1060/1102: top of the loop. Past the ceiling the child
\* is sent SIGTERM; else the pseudo-terminal branch polls, the pipe branch reads
MonTop ==
  /\ monPc = "top"
  /\ IF elapsed > HardTimeoutTicks
       THEN termSent' = TRUE /\ monPc' = "term_wait"
       ELSE termSent' = termSent /\ monPc' = IF use_pty THEN "poll" ELSE "readline"
  /\ UNCHANGED <<use_pty, childState, childCode, streamOpen, outBuf, inReader, drainedBuffered, linesWritten,
                 elapsed, waitExpired, phase, last_displayed, error_lines, lastLine, lastEvent,
                 master_file_closed, master_closed, return_code, bulkResult>>

\* lines 1047-1057: process.wait(timeout=5). A child that has exited lets the
\* handles be closed before TimeoutExpired(cmd, 7200) is raised; a child still
\* alive after 5 s makes wait itself raise TimeoutExpired, past the closing
MonTermWait ==
  /\ monPc = "term_wait"
  /\ IF childState = "exited"
       THEN /\ master_file_closed' = TRUE
            /\ master_closed' = use_pty
       ELSE UNCHANGED <<master_file_closed, master_closed>>
  /\ monPc' = "raised"
  /\ UNCHANGED <<use_pty, childState, childCode, streamOpen, outBuf, inReader, drainedBuffered, linesWritten,
                 elapsed, waitExpired, phase, last_displayed, error_lines, lastLine, lastEvent,
                 termSent, return_code, bulkResult>>

\* line 1062: process.poll() on the pseudo-terminal branch
MonPoll ==
  /\ monPc = "poll"
  /\ monPc' = IF childState = "exited" THEN "drain" ELSE "select"
  /\ UNCHANGED <<use_pty, childState, childCode, streamOpen, outBuf, inReader, drainedBuffered, linesWritten,
                 elapsed, waitExpired, phase, last_displayed, error_lines, lastLine, lastEvent,
                 termSent, master_file_closed, master_closed, return_code, bulkResult>>

\* the descriptor has something for select() to report: data, or the end of
\* the stream. Lines in the reader's buffer are not seen by select()
StreamReady == Len(outBuf) > inReader \/ ~streamOpen

\* a drain whose select() reports the descriptor only while it holds data
MonDrainDataOnly ==
  /\ monPc = "drain"
  /\ IF Len(outBuf) > inReader
       THEN ConsumeLine /\ monPc' = "drain"
       ELSE /\ monPc' = "cleanup"
            /\ UNCHANGED <<outBuf, inReader, drainedBuffered, phase, last_displayed, lastLine,
                           lastEvent, error_lines>>
  /\ UNCHANGED <<use_pty, childState, childCode, streamOpen, linesWritten, elapsed,
                 waitExpired, termSent, master_file_closed, master_closed,
                 return_code, bulkResult>>

\* lines 1065-1084: the child has exited; while select() reports the
\* descriptor (it does at the end of the stream too) a line is read and
\* processed; the loop is left once readline has nothing more to give
MonDrain ==
  /\ monPc = "drain"
  /\ IF StreamReady /\ outBuf # <<>>
       THEN ConsumeLine /\ monPc' = "drain"
       ELSE /\ monPc' = "cleanup"
            /\ UNCHANGED <<outBuf, inReader, drainedBuffered, phase, last_displayed, lastLine,
                         lastEvent, error_lines>>
  /\ UNCHANGED <<use_pty, childState, childCode, streamOpen, linesWritten, elapsed,
                 waitExpired, termSent, master_file_closed, master_closed,
                 return_code, bulkResult>>

\* line 1088: select([master_file], [], [], 0.1) returns ready, or empty once
\* the 0.1 s have passed
MonSelect ==
  /\ monPc = "select"
  /\ IF StreamReady
       THEN monPc' = "readline"
       ELSE waitExpired /\ monPc' = "top"
  /\ waitExpired' = FALSE
  /\ UNCHANGED <<use_pty, childState, childCode, streamOpen, outBuf, inReader, drainedBuffered, linesWritten,
                 elapsed, phase, last_displayed, error_lines, lastLine, lastEvent, termSent,
                 master_file_closed, master_closed, return_code, bulkResult>>

\* lines 1090-1101: readline on the pseudo-terminal master. At the end of the
\* stream the read fails with EIO (eio: "except: break") or returns ''
MonReadPty(eio) ==
  /\ monPc = "readline" /\ use_pty
  /\ IF outBuf # <<>>
       THEN /\ ~eio
            /\ ConsumeLine
            /\ monPc' = "top"
       ELSE /\ ~streamOpen
            /\ monPc' = IF eio THEN "cleanup" ELSE "top"
            /\ UNCHANGED <<outBuf, inReader, drainedBuffered, phase, last_displayed, lastLine,
                         lastEvent, error_lines>>
  /\ UNCHANGED <<use_pty, childState, childCode, streamOpen, linesWritten, elapsed,
                 waitExpired, termSent, master_file_closed, master_closed,
                 return_code, bulkResult>>

\* lines 1104-1118: readline on the pipe blocks until a line or the end of the
\* stream is there; '' with the child gone leaves the loop
MonReadPipe ==
  /\ monPc = "readline" /\ ~use_pty
  /\ IF outBuf # <<>>
       THEN /\ ConsumeLine
            /\ monPc' = "top"
       ELSE /\ ~streamOpen
            /\ monPc' = IF childState = "exited" THEN "cleanup" ELSE "top"
            /\ UNCHANGED <<outBuf, inReader, drainedBuffered, phase, last_displayed, lastLine,
                         lastEvent, error_lines>>
  /\ UNCHANGED <<use_pty, childState, childCode, streamOpen, linesWritten, elapsed,
                 waitExpired, termSent, master_file_closed, master_closed,
                 return_code, bulkResult>>

\* lines 1120-1150: the handles are closed and the result object is built
\* with returncode = process.poll()
MonCleanup ==
  /\ monPc = "cleanup"
  /\ master_file_closed' = TRUE
  /\ master_closed' = use_pty
  /\ return_code' = IF childState = "exited" THEN childCode ELSE NoCode
  /\ monPc' = "returned"
  /\ UNCHANGED <<use_pty, childState, childCode, streamOpen, outBuf, inReader, drainedBuffered, linesWritten,
                 elapsed, waitExpired, phase, last_displayed, error_lines, lastLine, lastEvent,
                 termSent, bulkResult>>

\* execute_bulk_download, lines 1244-1255
BulkReturn ==
  /\ monPc \in {"returned", "raised"}
  /\ bulkResult' = IF monPc = "raised" THEN "timed_out"
                   ELSE IF return_code = 0 THEN "success" ELSE "failed"
  /\ monPc' = "done"
  /\ UNCHANGED <<use_pty, childState, childCode, streamOpen, outBuf, inReader, drainedBuffered, linesWritten,
                 elapsed, waitExpired, phase, last_displayed, error_lines, lastLine, lastEvent,
                 termSent, master_file_closed, master_closed, return_code>>

\* the steps of the monitoring process itself
MonStep ==
  \/ MonTop
  \/ MonTermWait
  \/ MonPoll
  \/ MonDrain
  \/ MonSelect
  \/ \E eio \in BOOLEAN : MonReadPty(eio)
  \/ MonReadPipe
  \/ MonCleanup
  \/ BulkReturn

\* Time passes where the monitor waits: in select() until its 0.1 s are over,
\* and in the pipe's readline() for as long as nothing arrives; it also passes
\* while the loop spins on a stream that has ended under a child still alive
MonTick ==
  /\ \/ monPc = "select" /\ ~StreamReady /\ ~waitExpired
     \/ monPc = "readline" /\ ~use_pty /\ ~StreamReady
     \/ monPc = "top" /\ ~streamOpen /\ childState = "running"
  /\ elapsed <= HardTimeoutTicks
  /\ elapsed' = elapsed + 1
  /\ waitExpired' = use_pty
  /\ UNCHANGED <<monPc, use_pty, childState, childCode, streamOpen, outBuf, inReader, drainedBuffered,
                 linesWritten, phase, last_displayed, error_lines, lastLine, lastEvent, termSent,
                 master_file_closed, master_closed, return_code, bulkResult>>

MonIdle ==
  /\ monPc = "idle"
  /\ use_pty = FALSE
  /\ childState = "running"
  /\ childCode = 0
  /\ streamOpen = TRUE
  /\ outBuf = <<>>
  /\ inReader = 0
  /\ drainedBuffered = FALSE
  /\ linesWritten = 0
  /\ elapsed = 0
  /\ waitExpired = FALSE
  /\ phase = "starting"
  /\ last_displayed = <<>>
  /\ error_lines = <<>>
  /\ lastLine = <<>>
  /\ lastEvent = "none"
  /\ termSent = FALSE
  /\ master_file_closed = FALSE
  /\ master_closed = FALSE
  /\ return_code = NotReturned
  /\ bulkResult = "none"

\* ================================================== the quote sanitizer
\* The text of .tx/config is a sequence of tokens: the keys and "=" as whole
\* words, " " and "NL" for white space, "'" for the quote, "a" and "_" for
\* any other character.
ResourceNameKeys == {"resource_name"}
FilePathKeys == {"file_filter", "source_file"}

\* lines a .tx/config is made of, without their newline
QuoteLines == {
  <<"resource_name", " ", "=", " ", "a", "'", "b">>,
  <<" ", "file_filter", "=", "'", "a", "'", " ">>,
  <<"resource_name", " ", "=">>,
  <<"source_file", "=", "a", " ">>,
  <<"a", "'", "b">>,
  <<"resource_name", "=", "a">>,
  <<>> }

RECURSIVE JoinLines(_)
JoinLines(ls) == IF ls = <<>> THEN <<>>
                 ELSE Head(ls) \o <<"NL">> \o JoinLines(Tail(ls))

\* every text of at most MaxConfigLines lines; the last line may lack its newline
QuoteContents ==
  LET full == {JoinLines(ls) : ls \in SeqsUpTo(QuoteLines, MaxConfigLines)}
  IN  full \cup {SubSeq(c, 1, Len(c) - 1) : c \in full \ {<<>>}}

\* index of the first "NL" at or after i, Len(s) + 1 if there is none
RECURSIVE LineEnd(_, _)
LineEnd(s, i) == IF i > Len(s) \/ s[i] = "NL" THEN i ELSE LineEnd(s, i + 1)

\* ^ under re.MULTILINE
AtLineStart(s, i) == i = 1 \/ s[i - 1] = "NL"

\* ^(\s*KEY\s*=\s*)(.*)$ tried at position i: group 1 is s[i..pEnd-1], group 2
\* is s[pEnd..vEnd-1]. \s takes blanks and newlines alike, . stops at a newline.
KeyMatch(s, i, keys) ==
  LET k == SkipBlanks(s, i)
      e == SkipBlanks(s, k + 1)
      v == SkipBlanks(s, e + 1)
  IN  IF k <= Len(s) /\ s[k] \in keys /\ e <= Len(s) /\ s[e] = "="
        THEN [ok |-> TRUE, pEnd |-> v, vEnd |-> LineEnd(s, v)]
        ELSE [ok |-> FALSE, pEnd |-> i, vEnd |-> i]

\* a replacement that leaves the quotes in
KeepQuotes(v) == v

\* str.replace("'", "_")
ReplaceQuotes(v) == [i \in 1..Len(v) |-> IF v[i] = "'" THEN "_" ELSE v[i]]

\* lines 783-788 and 795-800: the group is stripped, then its quotes replaced
FixValue(v) == ReplaceQuotes(Strip(v))

\* pattern.sub(fix, content), lines 790 and 802: the matches are taken from
\* left to right, each replaced by its prefix and its fixed value
RECURSIVE SubFrom(_, _, _)
SubFrom(s, i, keys) ==
  IF i > Len(s) THEN <<>>
  ELSE LET m == KeyMatch(s, i, keys)
       IN  IF AtLineStart(s, i) /\ m.ok
             THEN SubSeq(s, i, m.pEnd - 1) \o FixValue(SubSeq(s, m.pEnd, m.vEnd - 1))
                    \o SubFrom(s, m.vEnd, keys)
             ELSE <<s[i]>> \o SubFrom(s, i + 1, keys)

\* lines 777-802: the content _fix_config_quotes would write
fix_in_memory(content) ==
  SubFrom(SubFrom(content, 1, ResourceNameKeys), 1, FilePathKeys)

\* "for line in infile": the lines with their newline
RECURSIVE FileLines(_)
FileLines(s) ==
  IF s = <<>> THEN <<>>
  ELSE LET e == LineEnd(s, 1)
       IN  IF e > Len(s) THEN <<s>>
           ELSE <<SubSeq(s, 1, e)>> \o FileLines(SubSeq(s, e + 1, Len(s)))

\* lines 843-850 and 853-860: one pattern on one line
FixLineWith(line, keys) ==
  LET m == KeyMatch(line, 1, keys)
      value == Strip(SubSeq(line, m.pEnd, m.vEnd - 1))
  IN  IF m.ok /\ Contains(value, "'")
        THEN [line |-> SubSeq(line, 1, m.pEnd - 1) \o ReplaceQuotes(value) \o <<"NL">>,
              modified |-> TRUE]
        ELSE [line |-> line, modified |-> FALSE]

\* lines 839-862: the body of the loop for one line
fix_line(line) ==
  LET a == FixLineWith(line, ResourceNameKeys)
      b == FixLineWith(a.line, FilePathKeys)
  IN  [line |-> b.line, modified |-> a.modified \/ b.modified]

RECURSIVE StreamFrom(_)
StreamFrom(ls) ==
  IF ls = <<>> THEN [content |-> <<>>, modified |-> FALSE]
  ELSE LET h == fix_line(Head(ls))
           t == StreamFrom(Tail(ls))
       IN  [content |-> h.line \o t.content, modified |-> h.modified \/ t.modified]

\* lines 832-862: what _fix_config_quotes_streaming writes to the temporary
\* file, and its modified flag
fix_streaming(content) == StreamFrom(FileLines(content))

\* ---- the call, step by step
\* the call ends: return value ret, after an exception or not
QuoteReturn(ret, failed) ==
  /\ quotePc' = "returned"
  /\ qReturn' = ret
  /\ qFailed' = failed

\* _fix_config_quotes is called. The backup is named after the second of the
\* call: a call in the same second as the one before finds that backup file.
QuoteCall(sameSecond) ==
  /\ quotePc \in {"ready", "returned"}
  /\ qCalls < MaxCalls
  /\ qCalls' = qCalls + 1
  /\ quotePc' = "start"
  /\ qOriginal' = qContent
  /\ qPrevOk' = (quotePc = "returned" /\ ~qFailed)
  /\ qReturn' = "none"
  /\ qFailed' = FALSE
  /\ qWrote' = FALSE
  /\ IF sameSecond THEN UNCHANGED <<qBackupExists, qBackup>>
                   ELSE qBackupExists' = FALSE /\ qBackup' = <<>>
  /\ UNCHANGED <<large, qExists, qContent, qTempExists>>

\* lines 762-772: a missing file returns False; stat() may raise; a file over
\* max_file_size goes to _fix_config_quotes_streaming
QuoteStart(ok) ==
  /\ quotePc = "start"
  /\ IF ~qExists THEN ok /\ QuoteReturn("false", FALSE)
     ELSE IF ~ok THEN QuoteReturn("false", TRUE)
     ELSE /\ quotePc' = IF large THEN "s_backup" ELSE "read"
          /\ UNCHANGED <<qReturn, qFailed>>
  /\ UNCHANGED <<large, qExists, qContent, qOriginal, qBackupExists, qBackup,
                 qTempExists, qWrote, qPrevOk, qCalls>>

\* lines 774-805 and 817: the file is read and both patterns substituted; with
\* nothing changed the call returns False
QuoteRead(ok) ==
  /\ quotePc = "read"
  /\ IF ~ok THEN QuoteReturn("false", TRUE)
     ELSE IF fix_in_memory(qContent) = qContent THEN QuoteReturn("false", FALSE)
     ELSE quotePc' = "m_backup" /\ UNCHANGED <<qReturn, qFailed>>
  /\ UNCHANGED <<large, qExists, qContent, qOriginal, qBackupExists, qBackup,
                 qTempExists, qWrote, qPrevOk, qCalls>>

\* a sanitizer that rewrites the file without a backup
QuoteBackupSkipped(ok) ==
  /\ quotePc = "m_backup"
  /\ IF ok THEN quotePc' = "m_open" /\ UNCHANGED <<qReturn, qFailed>>
     ELSE QuoteReturn("false", TRUE)
  /\ UNCHANGED <<large, qExists, qContent, qOriginal, qBackupExists, qBackup,
                 qTempExists, qWrote, qPrevOk, qCalls>>

\* lines 807-808: shutil.copy2(config_path, backup_path); a copy that fails
\* leaves an empty backup file
QuoteBackup(ok) ==
  /\ quotePc = "m_backup"
  /\ qBackupExists' = TRUE
  /\ IF ok THEN /\ qBackup' = qContent
                /\ quotePc' = "m_open"
                /\ UNCHANGED <<qReturn, qFailed>>
     ELSE /\ qBackup' = <<>>
          /\ QuoteReturn("false", TRUE)
  /\ UNCHANGED <<large, qExists, qContent, qOriginal, qTempExists, qWrote,
                 qPrevOk, qCalls>>

\* line 810: open(config_path, 'w') truncates the file
QuoteOpenWrite(ok) ==
  /\ quotePc = "m_open"
  /\ IF ok THEN /\ qContent' = <<>>
                /\ qWrote' = TRUE
                /\ quotePc' = "m_write"
                /\ UNCHANGED <<qReturn, qFailed>>
     ELSE /\ QuoteReturn("false", TRUE)
          /\ UNCHANGED <<qContent, qWrote>>
  /\ UNCHANGED <<large, qExists, qOriginal, qBackupExists, qBackup, qTempExists,
                 qPrevOk, qCalls>>

\* lines 811-815: f.write(content) and return True; a write that fails after n
\* tokens leaves them in the file and the handler of line 819 returns False
QuoteWrite(ok, n) ==
  /\ quotePc = "m_write"
  /\ LET content == fix_in_memory(qOriginal)
     IN  IF ok THEN /\ n = Len(content)
                    /\ qContent' = content
                    /\ QuoteReturn("true", FALSE)
         ELSE /\ n < Len(content)
              /\ qContent' = SubSeq(content, 1, n)
              /\ QuoteReturn("false", TRUE)
  /\ UNCHANGED <<large, qExists, qOriginal, qBackupExists, qBackup, qTempExists,
                 qWrote, qPrevOk, qCalls>>

\* lines 826-830: the streaming strategy copies the file to the backup first
QuoteStreamBackup(ok) ==
  /\ quotePc = "s_backup"
  /\ qBackupExists' = TRUE
  /\ IF ok THEN /\ qBackup' = qContent
                /\ quotePc' = "s_copy"
                /\ UNCHANGED <<qReturn, qFailed>>
     ELSE /\ qBackup' = <<>>
          /\ QuoteReturn("false", TRUE)
  /\ UNCHANGED <<large, qExists, qContent, qOriginal, qTempExists, qWrote,
                 qPrevOk, qCalls>>

\* lines 836-862: the lines are fixed one by one into the temporary file; an
\* exception removes it (lines 875-882)
QuoteStreamCopy(ok) ==
  /\ quotePc = "s_copy"
  /\ IF ok THEN /\ qTempExists' = TRUE
                /\ quotePc' = "s_finish"
                /\ UNCHANGED <<qReturn, qFailed>>
     ELSE /\ qTempExists' = FALSE
          /\ QuoteReturn("false", TRUE)
  /\ UNCHANGED <<large, qExists, qContent, qOriginal, qBackupExists, qBackup,
                 qWrote, qPrevOk, qCalls>>

\* lines 864-873: with modified set the temporary file replaces the config
\* (shutil.move) and the call returns True, else the temporary file is
\* removed and it returns False
QuoteStreamFinish(ok) ==
  /\ quotePc = "s_finish"
  /\ qTempExists' = FALSE
  /\ LET r == fix_streaming(qContent)
     IN  IF ~ok THEN /\ QuoteReturn("false", TRUE)
                     /\ UNCHANGED <<qContent, qWrote>>
         ELSE IF r.modified
           THEN /\ qContent' = r.content
                /\ qWrote' = TRUE
                /\ QuoteReturn("true", FALSE)
           ELSE /\ QuoteReturn("false", FALSE)
                /\ UNCHANGED <<qContent, qWrote>>
  /\ UNCHANGED <<large, qExists, qOriginal, qBackupExists, qBackup, qPrevOk, qCalls>>

\* no call of the sanitizer is followed
QuoteIdle ==
  /\ quotePc = "off"
  /\ large = FALSE
  /\ qExists = FALSE
  /\ qContent = <<>>
  /\ qOriginal = <<>>
  /\ qBackupExists = FALSE
  /\ qBackup = <<>>
  /\ qTempExists = FALSE
  /\ qReturn = "none"
  /\ qFailed = FALSE
  /\ qWrote = FALSE
  /\ qPrevOk = FALSE
  /\ qCalls = 0

\* ===================================== parse_existing_config_enhanced, by step
\* an except clause that hands out what the loop had collected
LeakySnapshot(exists, age) ==
  [BuildSnapshot(age, parseAcc) EXCEPT !.config_exists = exists]

\* the dictionary of the except clause, lines 360-369
ExceptSnapshot(exists, age) == EmptySnapshot(exists, age)

\* lines 292-312: an absent file returns at once; else the age is taken from
\* stat() (age = NoAge: stat raised, line 307) and the collections start empty
ParseCall(age) ==
  /\ parsePc = "ready"
  /\ IF ~pExists
       THEN /\ age = NoAge
            /\ snapshot' = EmptySnapshot(FALSE, NoAge)
            /\ parsePc' = "returned"
       ELSE /\ parsePc' = "open"
            /\ UNCHANGED snapshot
  /\ age_hours' = age
  /\ parseAcc' = EmptyAnalysis
  /\ line_num' = 0
  /\ UNCHANGED <<pExists, pFile, parseRaised>>

\* lines 314-322: the size is checked and the file opened; either may raise
ParseOpen(ok) ==
  /\ parsePc = "open"
  /\ IF ok THEN parsePc' = "loop" /\ UNCHANGED <<snapshot, parseRaised>>
     ELSE /\ snapshot' = ExceptSnapshot(TRUE, age_hours)
          /\ parseRaised' = TRUE
          /\ parsePc' = "returned"
  /\ UNCHANGED <<pExists, pFile, age_hours, line_num, parseAcc>>

\* lines 323-349: one iteration: the next line is read (a read may raise, for
\* example on undecodable bytes), a long line is passed over, any other line
\* is processed and ends the loop if its number is over the limit
ParseNext(ok) ==
  /\ parsePc = "loop"
  /\ line_num < Len(pFile)
  /\ IF ~ok
       THEN /\ snapshot' = ExceptSnapshot(TRUE, age_hours)
            /\ parseRaised' = TRUE
            /\ parsePc' = "returned"
            /\ UNCHANGED <<line_num, parseAcc>>
       ELSE LET l == pFile[line_num + 1]
            IN  /\ line_num' = line_num + 1
                /\ parseAcc' = IF l.long THEN parseAcc ELSE ProcessLine(parseAcc, l)
                /\ parsePc' = IF ~l.long /\ line_num + 1 > LineLimit
                                THEN "after" ELSE "loop"
                /\ UNCHANGED <<snapshot, parseRaised>>
  /\ UNCHANGED <<pExists, pFile, age_hours>>

\* lines 351-358: the loop is over (end of file or break)
ParseFinish ==
  /\ \/ parsePc = "after"
     \/ parsePc = "loop" /\ line_num = Len(pFile)
  /\ snapshot' = BuildSnapshot(age_hours, parseAcc)
  /\ parsePc' = "returned"
  /\ UNCHANGED <<pExists, pFile, age_hours, line_num, parseAcc, parseRaised>>

\* no call of the parser is followed
ParseIdle ==
  /\ parsePc = "off"
  /\ pExists = FALSE
  /\ pFile = <<>>
  /\ age_hours = NoAge
  /\ line_num = 0
  /\ parseAcc = EmptyAnalysis
  /\ parseRaised = FALSE
  /\ snapshot = EmptySnapshot(FALSE, NoAge)

\* ---------------------------------------------------------- specification
ProjectLists == {SubSeq(OrgListing, 1, n) : n \in 0..MaxProjects}

LockIdle ==
  /\ idx = [p \in Procs |-> 0]
  /\ added_count = [p \in Procs |-> 0]
  /\ failed_count = [p \in Procs |-> 0]
  /\ attempts = [p \in Procs |-> <<>>]
  /\ fd = [p \in Procs |-> 0]
  /\ result = [p \in Procs |-> "none"]
  /\ unlinkTried = [p \in Procs |-> FALSE]
  /\ waited = [p \in Procs |-> 0]
  /\ runTime = [p \in Procs |-> 0]
  /\ lockPath = 0
  /\ flockHolder = [i \in Inodes |-> 0]
  /\ lastWrite = NoWrite

RunIdle ==
  /\ runPc = "idle"
  /\ wanted = AllProjects
  /\ runProjects = <<>>
  /\ consumed = 0
  /\ fileExists = FALSE
  /\ configFile = <<>>
  /\ configAge = NoAge
  /\ config_exists = FALSE
  /\ missing_projects = {}
  /\ extra_projects = {}
  /\ skip_config = FALSE
  /\ backupMade = FALSE
  /\ exitKind = "none"
  /\ pullStarted = FALSE
  /\ finalStatus = "none"
  /\ reportWritten = FALSE

ProcStep(p) ==
  \/ GenStart(p)
  \/ OpenLock(p)
  \/ AcquireLock(p)
  \/ \E o \in RunOutcomes : RunEnd(p, o)
  \/ ReleaseLock(p)
  \/ UnlinkReturn(p)
  \/ CountResult(p)
  \/ \E m \in BOOLEAN : FinishBatch(p, m)

\* ---- Spec: NumProcs processes, each in generate_config_for_projects
Init ==
  /\ pc = [p \in Procs |-> "start"]
  /\ projects \in [Procs -> ProjectLists]
  /\ SumOver([p \in Procs |-> Len(projects[p])], Procs) <= MaxAdds
  \* the processes run the same code: the longer lists go to the lower numbers
  /\ \A p, q \in Procs : p < q => Len(projects[p]) >= Len(projects[q])
  /\ LockIdle
  /\ RunIdle
  /\ MonIdle
  /\ QuoteIdle
  /\ ParseIdle
  /\ SpawnIdle
  /\ MenuIdle

Next ==
  \/ (\E p \in Procs : ProcStep(p)) /\ UNCHANGED <<runVars, monVars, quoteVars, parseVars, spawnVars, menuVars>>
  \/ Tick /\ UNCHANGED <<runVars, monVars, quoteVars, parseVars, spawnVars, menuVars>>

Spec == Init /\ [][Next]_vars

\* ---- SpecRun: one run() of process Self; nobody else uses the directory
WantedSets == {AllProjects, {"alpha"}, {"beta"}, {"zeta"}, {"alpha", "beta"},
               {"beta", "zeta"}}
ConfigAges == {NoAge, 12, 48, 100}

InitRun ==
  /\ pc = [p \in Procs |-> IF p = Self THEN "idle" ELSE "done"]
  /\ projects = [p \in Procs |-> <<>>]
  /\ LockIdle
  /\ runPc = "new"
  /\ wanted \in WantedSets
  /\ runProjects = <<>>
  /\ consumed = 0
  /\ fileExists \in BOOLEAN
  /\ configFile \in SeqsUpTo(ConfigLines, MaxConfigLines)
  /\ configAge \in ConfigAges
  /\ ~fileExists => configFile = <<>> /\ configAge = NoAge
  /\ config_exists = FALSE
  /\ missing_projects = {}
  /\ extra_projects = {}
  /\ skip_config = FALSE
  /\ backupMade = FALSE
  /\ exitKind = "none"
  /\ pullStarted = FALSE
  /\ finalStatus = "none"
  /\ reportWritten = FALSE
  /\ MonIdle
  /\ QuoteIdle
  /\ ParseIdle
  /\ parent_env \in ParentEnvs
  /\ spawned = NoSpawn
  /\ MenuIdle

NextRun ==
  \/ (\E ok \in BOOLEAN : RunVerifyCli(ok)) /\ UNCHANGED <<quoteVars, parseVars, menuVars>>
  \/ (\E ok \in BOOLEAN : RunDiscover(ok))
       /\ UNCHANGED <<quoteVars, parseVars, spawnVars, menuVars>>
  \/ (\E m, ok \in BOOLEAN : RunSetup(m, ok))
       /\ spawned' = (IF config_exists' THEN spawned ELSE Launch(TxInitCmd, FALSE))
       /\ UNCHANGED <<quoteVars, parseVars, parent_env, menuVars>>
  \/ (\E c \in Choices : RunMenu(c) /\ chosen' = MenuLabel(missing_projects, configAge, c))
       /\ UNCHANGED <<quoteVars, parseVars, spawnVars>>
  \/ (\E ok \in BOOLEAN : RunFreshBackup(ok))
       /\ UNCHANGED <<quoteVars, parseVars, spawnVars, menuVars>>
  \/ RunFreshUnlink /\ UNCHANGED <<quoteVars, parseVars, spawnVars, menuVars>>
  \/ (\E ok \in BOOLEAN : RunFreshInit(ok))
       /\ spawned' = Launch(TxInitCmd, FALSE)
       /\ UNCHANGED <<quoteVars, parseVars, parent_env, menuVars>>
  \/ RunConfigStart /\ UNCHANGED <<quoteVars, parseVars, spawnVars, menuVars>>
  \/ /\ runPc = "config"
     /\ ProcStep(Self)
     /\ spawned' = (IF pc[Self] = "opened" /\ pc'[Self] = "running"
                      THEN Launch(AddRemoteCmd(attempts[Self][Len(attempts[Self])]), TRUE)
                      ELSE spawned)
     /\ UNCHANGED <<runVars, monVars, quoteVars, parseVars, parent_env, menuVars>>
  \/ runPc = "config" /\ Tick /\ UNCHANGED <<runVars, monVars, quoteVars, parseVars, spawnVars, menuVars>>
  \/ RunConfigDone /\ UNCHANGED <<quoteVars, parseVars, spawnVars, menuVars>>
  \/ (\E o \in PullOutcomes : RunPull(o))
       /\ spawned' = Launch(PullCmd, TRUE)
       /\ UNCHANGED <<quoteVars, parseVars, parent_env, menuVars>>
  \/ (\E w \in BOOLEAN : RunReport(w))
       /\ UNCHANGED <<quoteVars, parseVars, spawnVars, menuVars>>

SpecRun == InitRun /\ [][NextRun]_vars

\* ---- SpecMonitor: execute_bulk_download in filtered-output mode, from the
\* moment the child was started (lines 1007-1041)
InitMonitor ==
  /\ pc = [p \in Procs |-> "done"]
  /\ projects = [p \in Procs |-> <<>>]
  /\ LockIdle
  /\ RunIdle
  /\ monPc = "top"
  /\ use_pty \in BOOLEAN
  /\ childState = "running"
  /\ childCode = 0
  /\ streamOpen = TRUE
  /\ outBuf = <<>>
  /\ inReader = 0
  /\ drainedBuffered = FALSE
  /\ linesWritten = 0
  /\ elapsed = 0
  /\ waitExpired = FALSE
  /\ phase = "starting"
  /\ last_displayed = <<>>
  /\ error_lines = <<>>
  /\ lastLine = <<>>
  /\ lastEvent = "none"
  /\ termSent = FALSE
  /\ master_file_closed = FALSE
  /\ master_closed = FALSE
  /\ return_code = NotReturned
  /\ bulkResult = "none"
  /\ QuoteIdle
  /\ ParseIdle
  /\ SpawnIdle
  /\ MenuIdle

NextMonitor ==
  \/ (\E l \in SampleLines : ChildWrite(l)) /\ UNCHANGED <<lockVars, runVars, quoteVars, parseVars, spawnVars, menuVars>>
  \/ (\E b \in Bursts : ChildWriteBurst(b[1], b[2]))
       /\ UNCHANGED <<lockVars, runVars, quoteVars, parseVars, spawnVars, menuVars>>
  \/ ChildCloseStream /\ UNCHANGED <<lockVars, runVars, quoteVars, parseVars, spawnVars, menuVars>>
  \/ (\E c \in {0, 1} : ChildExit(c)) /\ UNCHANGED <<lockVars, runVars, quoteVars, parseVars, spawnVars, menuVars>>
  \/ MonStep /\ UNCHANGED <<lockVars, runVars, quoteVars, parseVars, spawnVars, menuVars>>
  \/ MonTick /\ UNCHANGED <<lockVars, runVars, quoteVars, parseVars, spawnVars, menuVars>>

SpecMonitor == InitMonitor /\ [][NextMonitor]_vars

\* ---- SpecVolume: the same call under a child that writes up to MaxFlood
\* lines, more than max_error_lines of them error lines
FloodLines == {<<"ERROR:", "x", "NL">>, <<"x", "NL">>}

InitVolume == InitMonitor

NextVolume ==
  \/ (\E l \in FloodLines : ChildWriteUpTo(l, MaxFlood))
       /\ UNCHANGED <<lockVars, runVars, quoteVars, parseVars, spawnVars, menuVars>>
  \/ ChildCloseStream /\ UNCHANGED <<lockVars, runVars, quoteVars, parseVars, spawnVars, menuVars>>
  \/ (\E c \in {0, 1} : ChildExit(c)) /\ UNCHANGED <<lockVars, runVars, quoteVars, parseVars, spawnVars, menuVars>>
  \/ MonStep /\ UNCHANGED <<lockVars, runVars, quoteVars, parseVars, spawnVars, menuVars>>
  \/ MonTick /\ UNCHANGED <<lockVars, runVars, quoteVars, parseVars, spawnVars, menuVars>>

SpecVolume == InitVolume /\ [][NextVolume]_vars

\* ---- SpecQuotes: up to MaxCalls calls of _fix_config_quotes on one file.
\* large stands for a file padded beyond max_file_size with lines that
\* neither pattern matches.
InitQuotes ==
  /\ pc = [p \in Procs |-> "done"]
  /\ projects = [p \in Procs |-> <<>>]
  /\ LockIdle
  /\ RunIdle
  /\ MonIdle
  /\ quotePc = "ready"
  /\ large \in BOOLEAN
  /\ qExists \in BOOLEAN
  /\ qContent \in QuoteContents
  /\ ~qExists => qContent = <<>>
  /\ qOriginal = <<>>
  /\ qBackupExists = FALSE
  /\ qBackup = <<>>
  /\ qTempExists = FALSE
  /\ qReturn = "none"
  /\ qFailed = FALSE
  /\ qWrote = FALSE
  /\ qPrevOk = FALSE
  /\ qCalls = 0
  /\ ParseIdle
  /\ SpawnIdle
  /\ MenuIdle

NextQuotes ==
  \/ (\E sameSecond \in BOOLEAN : QuoteCall(sameSecond))
       /\ UNCHANGED <<lockVars, runVars, monVars, parseVars, spawnVars, menuVars>>
  \/ (\E ok \in BOOLEAN : QuoteStart(ok))
       /\ UNCHANGED <<lockVars, runVars, monVars, parseVars, spawnVars, menuVars>>
  \/ (\E ok \in BOOLEAN : QuoteRead(ok))
       /\ UNCHANGED <<lockVars, runVars, monVars, parseVars, spawnVars, menuVars>>
  \/ (\E ok \in BOOLEAN : QuoteBackup(ok))
       /\ UNCHANGED <<lockVars, runVars, monVars, parseVars, spawnVars, menuVars>>
  \/ (\E ok \in BOOLEAN : QuoteOpenWrite(ok))
       /\ UNCHANGED <<lockVars, runVars, monVars, parseVars, spawnVars, menuVars>>
  \/ (\E ok \in BOOLEAN, n \in 0..Len(fix_in_memory(qOriginal)) : QuoteWrite(ok, n))
       /\ UNCHANGED <<lockVars, runVars, monVars, parseVars, spawnVars, menuVars>>
  \/ (\E ok \in BOOLEAN : QuoteStreamBackup(ok))
       /\ UNCHANGED <<lockVars, runVars, monVars, parseVars, spawnVars, menuVars>>
  \/ (\E ok \in BOOLEAN : QuoteStreamCopy(ok))
       /\ UNCHANGED <<lockVars, runVars, monVars, parseVars, spawnVars, menuVars>>
  \/ (\E ok \in BOOLEAN : QuoteStreamFinish(ok))
       /\ UNCHANGED <<lockVars, runVars, monVars, parseVars, spawnVars, menuVars>>

SpecQuotes == InitQuotes /\ [][NextQuotes]_vars

\* ---- SpecParse: one call of parse_existing_config_enhanced on a file of at
\* most MaxParseLines lines
ParseFileLines == ConfigLines \cup {LongLine(Header("myorg", "alpha", "r2"))}

InitParse ==
  /\ pc = [p \in Procs |-> "done"]
  /\ projects = [p \in Procs |-> <<>>]
  /\ LockIdle
  /\ RunIdle
  /\ MonIdle
  /\ QuoteIdle
  /\ parsePc = "ready"
  /\ pExists \in BOOLEAN
  /\ pFile \in SeqsUpTo(ParseFileLines, MaxParseLines)
  /\ ~pExists => pFile = <<>>
  /\ age_hours = NoAge
  /\ line_num = 0
  /\ parseAcc = EmptyAnalysis
  /\ parseRaised = FALSE
  /\ snapshot = EmptySnapshot(FALSE, NoAge)
  /\ SpawnIdle
  /\ MenuIdle

NextParse ==
  \/ (\E age \in ConfigAges : ParseCall(age))
       /\ UNCHANGED <<lockVars, runVars, monVars, quoteVars, spawnVars, menuVars>>
  \/ (\E ok \in BOOLEAN : ParseOpen(ok))
       /\ UNCHANGED <<lockVars, runVars, monVars, quoteVars, spawnVars, menuVars>>
  \/ (\E ok \in BOOLEAN : ParseNext(ok))
       /\ UNCHANGED <<lockVars, runVars, monVars, quoteVars, spawnVars, menuVars>>
  \/ ParseFinish /\ UNCHANGED <<lockVars, runVars, monVars, quoteVars, spawnVars, menuVars>>

SpecParse == InitParse /\ [][NextParse]_vars

\* ================================================================= claims

\* C1: at any instant at most one process is inside the lock-guarded section
\* of _add_single_project_with_lock (its tx add remote is running) for the
\* working directory.
MutualExclusion ==
  \A p, q \in Procs : p # q => ~(InCriticalSection(p) /\ InCriticalSection(q))

\* C2: for an existing config file with configured set C and discovered set D,
\* check_existing_config_enhanced yields missing = D \ C and extra = C \ D
\* (so missing and extra are disjoint and missing with D \cap C makes up D),
\* for every C, the empty set included.
DiffIsSetDifference ==
  (runPc = "menu" /\ config_exists) =>
    LET C == parse_existing_config_enhanced(fileExists, configFile,
                                            configAge).configured_projects
        D == SlugSet(runProjects)
    IN  /\ missing_projects = D \ C
        /\ extra_projects = C \ D
        /\ missing_projects \cap extra_projects = {}
        /\ missing_projects \cup (D \cap C) = D

\* C3: every mutation of .tx/config (tx add remote, the quote fix's rewrite,
\* the start-fresh deletion, tx init) is made by a writer that holds the
\* config lock at that moment.
MutationsUnderLock == lastWrite.op # "none" => lastWrite.locked

\* C4: with a child that has not exited, once the ceiling has elapsed a
\* download that has not returned yet is never stuck: the monitor always has
\* a step of its own to take (the timeout check, the terminate, the return of
\* the timeout failure), on either transport.
TimeoutNeverHangs ==
  (elapsed > HardTimeoutTicks /\ childState = "running" /\ monPc # "done")
    => ENABLED MonStep

\* C5: a caller blocked on the config lock is not left waiting once its
\* timeout (add_remote_timeout, the only timeout the call has) has elapsed:
\* by then it has the lock or has failed with a lock-timeout error.
LockWaitBounded ==
  \A p \in Procs : pc[p] = "opened" => waited[p] <= TimeoutTicks

\* C6: when a call of _add_single_project_with_lock has returned, whatever
\* the way out (exit 0, non-zero, timeout, exception), the caller holds no
\* lock, has no lock file open and has tried to remove the lock file.
LockReleasedOnReturn ==
  \A p \in Procs :
    pc[p] = "returned" =>
      /\ fd[p] = 0
      /\ \A i \in Inodes : flockHolder[i] # p
      /\ unlinkTried[p]

\* C6 witness: a call that ended in the subprocess timeout has returned
ReturnedAfterTimeout ==
  \E p \in Procs : pc[p] = "returned" /\ result[p] = "timeout"

\* C7: generate_config_for_projects calls add_method for every project once,
\* in list order, whatever the earlier outcomes; between two iterations
\* added_count + failed_count is the number of projects processed, and on
\* return it is len(projects).
BatchNeverAborts ==
  \A p \in Procs :
    /\ pc[p] \in {"loop", "done"} =>
         /\ added_count[p] + failed_count[p] = Len(attempts[p])
         /\ attempts[p] = SubSeq(projects[p], 1, Len(attempts[p]))
    /\ pc[p] = "done" =>
         /\ attempts[p] = projects[p]
         /\ added_count[p] + failed_count[p] = Len(projects[p])

\* C7 witness: a batch of two projects whose first project failed has
\* finished, with one project added after the failure
BatchFinishedAfterFailure ==
  \E p \in Procs :
    /\ pc[p] = "done"
    /\ Len(projects[p]) >= 2
    /\ failed_count[p] >= 1
    /\ added_count[p] >= 1

\* C8: every run of run() that has ended has stated a final success/failure
\* status and written its report, whichever stage it stopped in.
EveryRunReports ==
  runPc = "ended" => (finalStatus # "none" /\ reportWritten)

\* C9: the phase only moves forward along starting, info, downloading, done,
\* and it changes only when the line read is one of the two marker lines.
PhaseRank(ph) == CASE ph = "starting" -> 0 [] ph = "info" -> 1
                   [] ph = "downloading" -> 2 [] OTHER -> 3
PhaseOnlyForward ==
  [][/\ PhaseRank(phase') >= PhaseRank(phase)
     /\ phase' # phase =>
          /\ outBuf # <<>>
          /\ Strip(Head(outBuf)) \in {<<InfoMarker>>, <<PullMarker>>}]_vars

\* C10: when the monitor processes a line with a (c / t) pattern, it renders
\* exactly when <<c, t>> differs from the pair tracked so far and then tracks
\* <<c, t>>; the same pair again renders nothing and changes nothing; the
\* render carries the check mark exactly when c = t and t > 0.
LineConsumed == outBuf # <<>> /\ outBuf' = Tail(outBuf)
RenderOnlyOnChange ==
  [][LineConsumed =>
       LET m == ProgressMatch(Strip(Head(outBuf)))
       IN  m # NoMatch =>
             /\ last_displayed' = m
             /\ (lastEvent' \in {"render", "complete"}) <=> (m # last_displayed)
             /\ (m = last_displayed) =>
                  (lastEvent' = "none" /\ phase' = phase)
             /\ (lastEvent' = "complete") <=>
                  (m # last_displayed /\ m[1] = m[2] /\ m[2] > 0)]_vars

\* C10 witness: the line (2/2) was processed while <<2, 2>> was already
\* tracked, and nothing was rendered
SamePairNotRendered ==
  /\ lastLine # <<>>
  /\ ProgressMatch(Strip(lastLine)) = <<2, 2>>
  /\ last_displayed = <<2, 2>>
  /\ lastEvent = "none"

\* C11: a child output line that contains one of the keywords error:, failed,
\* timeout, warning:, abort, exception (in any case) is appended to the lines
\* kept for the error report whenever fewer than max_error_lines are kept.
KeywordLinesRetained ==
  [][(LineConsumed /\ HasKeyword(Head(outBuf), DisplayKeywords)
        /\ Len(error_lines) < max_error_lines)
       => error_lines' = Append(error_lines, Strip(Head(outBuf)))]_vars

\* C12: when the timeout error leaves _execute_with_progress_bars, the child
\* was sent the terminate signal and every stream handle is closed: the
\* reader object and, on the pseudo-terminal transport, the master descriptor;
\* whether or not the child exited during the 5-second wait.
HandlesClosedOnTimeout ==
  monPc = "raised" =>
    /\ termSent
    /\ master_file_closed
    /\ use_pty => master_closed

\* a resource_name, file_filter or source_file line of the text has no quote
\* in its value
NoQuoteInValues(content) ==
  \A n \in 1..Len(FileLines(content)) :
    LET line == FileLines(content)[n]
        m == KeyMatch(line, 1, ResourceNameKeys \cup FilePathKeys)
    IN  m.ok => ~Contains(SubSeq(line, m.pEnd, m.vEnd - 1), "'")

\* C13: after a run of the quote sanitizer that raised nothing, no value of a
\* resource_name, file_filter or source_file line holds a quote; a run that
\* follows such a run on its output returns False and leaves the text as it
\* was; with the in-memory strategy and with the streaming strategy.
SanitizerIdempotent ==
  (quotePc = "returned" /\ ~qFailed) =>
    /\ NoQuoteInValues(qContent)
    /\ qPrevOk => (qReturn = "false" /\ qContent = qOriginal)

\* C13 witness: a second run has returned on a text the first run had changed
SecondRunAfterChange ==
  /\ quotePc = "returned" /\ ~qFailed /\ qPrevOk
  /\ qBackupExists /\ qBackup # qContent
  /\ Contains(qBackup, "'")

\* C14: whenever the sanitizer has written to the config file, the backup of
\* this call exists and holds the original text; at every point of the call
\* the original text is in the config file or in the backup.
BackupBeforeWrite ==
  quotePc \notin {"off", "ready"} =>
    /\ qWrote => (qBackupExists /\ qBackup = qOriginal)
    /\ qContent = qOriginal \/ (qBackupExists /\ qBackup = qOriginal)

\* C14 witness: a write failed half way and left a partial config file
WriteFailedHalfWay ==
  /\ quotePc = "returned" /\ qFailed /\ qWrote
  /\ qContent # qOriginal /\ qContent # <<>>

\* C15: when _fix_config_quotes has returned, it returned True exactly when
\* the text of the config file differs from the text before the call, and
\* after an exception it returned False.
ReturnTellsChange ==
  quotePc = "returned" =>
    /\ (qReturn = "true") <=> (qContent # qOriginal)
    /\ qFailed => qReturn = "false"

\* C16: in every snapshot parse_existing_config_enhanced returns, the counts
\* per project sum to the number of resource entries, total_resources is
\* that number, and the configured projects are the keys of the counts.
SnapshotConsistent ==
  parsePc = "returned" =>
    /\ SumOver(snapshot.projects_with_resources,
               DOMAIN snapshot.projects_with_resources) = Len(snapshot.all_resources)
    /\ snapshot.total_resources = Len(snapshot.all_resources)
    /\ snapshot.configured_projects = DOMAIN snapshot.projects_with_resources

\* C16 witness: a snapshot with two resources of one project
TwoResourcesOneProject ==
  /\ parsePc = "returned"
  /\ snapshot.total_resources = 2
  /\ Cardinality(snapshot.configured_projects) = 1

\* lines of the file that hold a header of the configured organization
OrgHeaderLines ==
  {i \in 1..Len(pFile) : pFile[i].kind = "header" /\ pFile[i].org = OrganizationSlug}

\* the loop gets as far as line i: no line before it ended it
LineReached(i) == \A j \in 1..(i - 1) : pFile[j].long \/ j <= LineLimit

\* C17 as stated: a file with N headers of the configured organization, read
\* without exception, gives N resource entries and counts that sum to N; no
\* entry and no configured project comes from another organization's header.
EveryOrgHeaderCounted ==
  (parsePc = "returned" /\ pExists /\ ~parseRaised) =>
    /\ Len(snapshot.all_resources) = Cardinality(OrgHeaderLines)
    /\ SumOver(snapshot.projects_with_resources,
               DOMAIN snapshot.projects_with_resources) = Cardinality(OrgHeaderLines)
    /\ \A n \in 1..Len(snapshot.all_resources) :
         snapshot.all_resources[n].org = OrganizationSlug
    /\ snapshot.configured_projects = {pFile[i].project : i \in OrgHeaderLines}

\* C17 amended: the entries are the headers of the configured organization on
\* the lines of at most 10000 characters that the loop reaches (it ends after
\* the first such line whose number is over the limit).
CountedHeaderLines ==
  {i \in OrgHeaderLines : ~pFile[i].long /\ LineReached(i)}

ReachedOrgHeadersCounted ==
  (parsePc = "returned" /\ pExists /\ ~parseRaised) =>
    /\ Len(snapshot.all_resources) = Cardinality(CountedHeaderLines)
    /\ SumOver(snapshot.projects_with_resources,
               DOMAIN snapshot.projects_with_resources) = Cardinality(CountedHeaderLines)
    /\ \A n \in 1..Len(snapshot.all_resources) :
         snapshot.all_resources[n].org = OrganizationSlug
    /\ snapshot.configured_projects = {pFile[i].project : i \in CountedHeaderLines}

\* C17 witness: a long header line, a counted header, a header past the break
\* and nothing raised
HeadersSkippedAndCounted ==
  /\ parsePc = "returned" /\ pExists /\ ~parseRaised
  /\ Cardinality(OrgHeaderLines) = 3
  /\ Len(snapshot.all_resources) = 1
  /\ \E i \in OrgHeaderLines : pFile[i].long
  /\ \E i \in OrgHeaderLines : ~LineReached(i)

\* C18: after an exception inside the parser the call still returns, with no
\* resource entry, no count and no configured project; for an absent file
\* it returns exists = false with every other field empty.
ParseFailureGivesEmpty ==
  parsePc = "returned" =>
    /\ parseRaised =>
         /\ snapshot.all_resources = <<>>
         /\ DOMAIN snapshot.projects_with_resources = {}
         /\ snapshot.configured_projects = {}
    /\ ~pExists =>
         /\ snapshot.config_exists = FALSE
         /\ snapshot.config_age_hours = NoAge
         /\ snapshot.total_resources = 0
         /\ snapshot.all_resources = <<>>
         /\ DOMAIN snapshot.projects_with_resources = {}
         /\ snapshot.configured_projects = {}

\* C18 witness: the read raised after a resource had been collected
RaisedAfterCollecting ==
  /\ parsePc = "returned" /\ parseRaised
  /\ parseAcc.all_resources # <<>>

\* C19: with a non-empty wanted set W, discover_projects returns the projects
\* of W among those it took from the listing, in listing order and nothing
\* else; it takes no project after the one that completes W; and it runs the
\* listing to its end only when some slug of W is not in the listing.
InWanted(slug) == slug \in wanted
SeenUpTo(k) == {Listing[i] : i \in 1..k}
FilteredDiscoveryExact ==
  [][(runPc = "discover" /\ runPc' # "discover" /\ exitKind' # "exception"
        /\ wanted # AllProjects) =>
       /\ \A i \in 1..Len(runProjects') : runProjects'[i] \in wanted
       /\ runProjects' = SelectSeq(SubSeq(Listing, 1, consumed'), InWanted)
       /\ \A k \in 0..(consumed' - 1) : ~(wanted \subseteq SeenUpTo(k))
       /\ discover_projects(Listing, wanted).consumed = consumed'
       /\ discover_projects(Listing, wanted).exhausted
            => ~(wanted \subseteq SlugSet(Listing))]_vars

\* C19 witness: the first project of the listing was all that was wanted, and
\* the rest of the listing was left alone
StoppedEarly ==
  /\ runPc = "setup"
  /\ wanted = {"alpha"}
  /\ runProjects = <<"alpha">>
  /\ consumed = 1
  /\ consumed < Len(Listing)

\* C20: every subprocess the program starts has the auth token under TX_TOKEN
\* in its environment, and no element of its argument vector is the token.
TokenInEnvNotArgv ==
  spawned.argv # <<>> =>
    /\ spawned.tx_token = ApiToken
    /\ \A i \in 1..Len(spawned.argv) : spawned.argv[i] # ApiToken

\* C21: when _execute_with_progress_bars has returned and the child has
\* exited, no line the child wrote is left unprocessed, on the pipe and on the
\* pseudo-terminal: every line written went through the monitor's processing.
AllLinesProcessedOnExit ==
  (monPc \in {"returned", "done"} /\ bulkResult # "timed_out" /\ childState = "exited")
    => outBuf = <<>>

\* C21 witness: on the pseudo-terminal, a line was read in the drain after
\* the child's exit, from the reader's buffer, and the call returned
DrainedFromReaderBuffer ==
  /\ monPc = "returned" /\ use_pty /\ childState = "exited"
  /\ drainedBuffered
  /\ linesWritten >= 2 /\ outBuf = <<>>

\* a header of the configured organization on a line within the length limit
CountableHeader(l) == l.kind = "header" /\ l.org = OrganizationSlug /\ ~l.long

\* C22: a file read to its end or to the limit gives, without an exception,
\* exactly the headers of the configured organization that are on lines within
\* the length limit and numbered up to the line limit: no over-long line and
\* no line past the limit contributes an entry.
ParserRespectsLimits ==
  (parsePc = "returned" /\ pExists /\ ~parseRaised) =>
    snapshot.all_resources =
      SelectSeq(SubSeq(pFile, 1, Min(Len(pFile), LineLimit)), CountableHeader)

\* C23: while the monitor runs, at most max_error_lines lines are kept for the
\* error report, however many lines the child writes, and each kept line is
\* an error line in its stripped form: no other line stays after processing.
ErrorLinesBounded ==
  /\ Len(error_lines) <= max_error_lines
  /\ \A i \in 1..Len(error_lines) :
       /\ HasKeyword(error_lines[i], StoredKeywords)
       /\ error_lines[i] = Strip(error_lines[i])

\* C23 witness: max_error_lines lines are kept and one more error line has
\* been processed
ErrorLineDropped ==
  /\ Len(error_lines) = max_error_lines
  /\ linesWritten > max_error_lines /\ outBuf = <<>>
  /\ HasKeyword(lastLine, StoredKeywords)

\* the step in which the menu is answered
MenuAnswered == runPc = "menu" /\ runPc' # "menu"

\* C24: when the number typed is the one displayed next to "Cancel operation",
\* or matches no displayed option, the run ends there: the config file is
\* neither backed up nor deleted nor re-initialised, and no tx add remote or
\* tx pull follows.
CancelEndsRun ==
  chosen \in {"cancel", "unlisted"} =>
    /\ runPc = "ended" /\ exitKind = "sys_exit"
    /\ ~backupMade /\ fileExists
    /\ pc[Self] = "idle" /\ ~pullStarted

\* C25: when the number typed is the one displayed next to "Start fresh", the
\* start fresh sequence begins (backup, then removal, then tx init); and the
\* config file is removed in no step unless the backup copy was made before.
StartFreshStartsFresh ==
  [][/\ (MenuAnswered /\ chosen' = "start_fresh") => runPc' = "fresh_backup"
     /\ (fileExists /\ ~fileExists') => backupMade]_vars

\* C26: when the number typed is the one displayed next to "Check for new
\* resources in existing projects", setup_working_directory returns with
\* skip_config false, the config file is left as it is and nothing is backed up.
CheckKeepsConfig ==
  [][(MenuAnswered /\ chosen' = "check") =>
       /\ runPc' = "config" /\ ~skip_config'
       /\ UNCHANGED <<fileExists, configFile, backupMade>>]_vars

\* C27: when _execute_with_progress_bars has returned, the child has exited
\* and the code returned is its exit status; and once execute_bulk_download is
\* done without a timeout, a child that exited with 0 is reported as a success.
ReturnCodeIsExitStatus ==
  /\ monPc = "returned" => (childState = "exited" /\ return_code = childCode)
  /\ (monPc = "done" /\ bulkResult # "timed_out"
        /\ childState = "exited" /\ childCode = 0) => bulkResult = "success"

\* C28: a call that ends without an exception leaves the content that either
\* strategy computes from the content it found, and returns true exactly when
\* either strategy finds something to change: the two strategies agree.
StrategiesAgree ==
  (quotePc = "returned" /\ qExists /\ ~qFailed) =>
    /\ qContent = fix_in_memory(qOriginal)
    /\ qContent = fix_streaming(qOriginal).content
    /\ (qReturn = "true") <=> (fix_in_memory(qOriginal) # qOriginal)
    /\ (qReturn = "true") <=> fix_streaming(qOriginal).modified

\* C29: a first call on an existing file that returns false without an
\* exception leaves the config as it was, and no backup file and no temporary
\* file exists afterwards, with either strategy.
NothingToFixLeavesNoFile ==
  (quotePc = "returned" /\ qExists /\ ~qFailed /\ qReturn = "false" /\ qCalls = 1) =>
    /\ qContent = qOriginal
    /\ ~qBackupExists
    /\ ~qTempExists

\* C30: tx pull has been started only if the existing configuration was taken
\* as it is (skip_config) or at least one project was added in this run, and
\* never while the add phase is under way; a run in which every tx add remote
\* failed has ended without starting tx pull.
PullOnlyAfterConfig ==
  /\ pullStarted =>
       /\ skip_config \/ added_count[Self] >= 1
       /\ IF skip_config THEN pc[Self] = "idle" ELSE pc[Self] = "done"
  /\ runPc = "pull" => pc[Self] \in {"idle", "done"}
  /\ (pc[Self] = "done" /\ added_count[Self] = 0) =>
       (~pullStarted /\ runPc \in {"config", "ended"})

\* C30 witness: every tx add remote of the run failed and the run has ended
\* without a pull
AllAddsFailedNoPull ==
  /\ runPc = "ended" /\ pc[Self] = "done"
  /\ failed_count[Self] >= 1 /\ added_count[Self] = 0
  /\ ~pullStarted /\ ~skip_config

====
